---- MODULE Spec2Model ----
(***************************************************************************)
(* A model of the falling-pickaxe chat bridge: the TikTok bridge of        *)
(* src/src/tiktok.py (dedup caches, event key resolution, comment / gift / *)
(* like handlers, client lifecycle and reconnect backoff) and the consumer *)
(* of the shared command queues in the game loop of src/src/main.py.       *)
(*                                                                         *)
(* Python values are modelled as follows.  An optional value is a sequence *)
(* of length 0 (None) or 1 (the value).  A dict is a record; a key that    *)
(* the code does not set is not in the record's domain and is read with    *)
(* Get, which is dict.get.  Strings are TLA+ strings, so that the keys the *)
(* resolver synthesizes are the very strings the f-strings build.  Every   *)
(* dict appended to a queue carries a field "serial": the identity of the  *)
(* Python object (each append creates a new dict).                         *)
(***************************************************************************)
EXTENDS Integers, Sequences, FiniteSets, TLC

VARIABLES
    \* the module-level queues of main.py, shared with the bridge
    tnt_queue, tnt_superchat_queue, fast_slow_queue, big_queue, pickaxe_queue,
    mega_tnt_queue,
    \* TikTokChatBridge fields
    seen_comment_ids, seen_gift_ids, seen_like_ids, like_counters,
    last_comment_time, last_gift_time,
    client, loop, futures, health_task, restart_pending, auto_reconnect,
    backoff_attempts, timers, unique_id,
    \* the subscriber count main.py keeps
    subscribers,
    \* the consumer's position in the "process chat queues" block
    pc,
    \* a stand-alone _SeenCache and the result of the last add on it
    cache, result,
    \* history: what the last handler did, the serial of the next dict, the
    \* entries the consumer has dequeued, the keys a stand-alone add inserted, the delays
    \* _next_backoff_delay returned since the last successful connect, the
    \* likes that _handle_like has added to each author's counter
    last, nextSerial, popped, inserted, delays, liked,
    \* the module level of youtube.py and of instagram.py
    seen_messages, seen_comments, profile_picture_cache, token_invalidated,
    \* history: the items that the chat polls have returned, and what the last
    \* call into instagram.py did
    returned, call

queues == <<tnt_queue, tnt_superchat_queue, fast_slow_queue, big_queue,
            pickaxe_queue, mega_tnt_queue>>
dedup == <<seen_comment_ids, seen_gift_ids, seen_like_ids, like_counters,
           liked>>
times == <<last_comment_time, last_gift_time>>
conn == <<client, loop, futures, health_task, restart_pending, auto_reconnect,
          backoff_attempts, timers, delays, unique_id>>
feeds == <<seen_messages, seen_comments, profile_picture_cache,
           token_invalidated, returned, call>>
standalone == <<cache, result, inserted, feeds>>
host == <<subscribers>>
vars == <<queues, dedup, times, conn, host, pc, standalone, last,
          nextSerial, popped>>

-----------------------------------------------------------------------------
(* Bounds of the model.                                                    *)

\* capacity of the bridge's three caches (the code's default is 2000)
BridgeCacheLen == 2
\* largest capacity of the stand-alone cache
MaxLen == 3
\* dicts appended to the queues in one behaviour, with and without consumer
MaxRequests == 3
MaxDedupRequests == 4
\* clients the bridge creates after the first one
MaxResets == 7
\* connect futures outstanding when the host calls start
MaxFutures == 1

-----------------------------------------------------------------------------
(* Python values.                                                          *)

None == <<>>
Some(v) == <<v>>

\* Python truthiness of an optional string / an optional integer
TruthyStr(o) == o # None /\ o[1] # ""
TruthyInt(o) == o # None /\ o[1] # 0

\* a or b, for optionals of one type
OrStr(a, b) == IF TruthyStr(a) THEN a ELSE b
OrInt(a, b) == IF TruthyInt(a) THEN a ELSE b

\* str(v) in an f-string: None prints as "None"
FmtStr(o) == IF o = None THEN "None" ELSE o[1]
FmtInt(o) == IF o = None THEN "None" ELSE ToString(o[1])

\* dict.get(key)
Get(d, k) == IF k \in DOMAIN d THEN Some(d[k]) ELSE None

Min(a, b) == IF a < b THEN a ELSE b
Max(a, b) == IF a > b THEN a ELSE b

RECURSIVE Pow2(_)
Pow2(n) == IF n = 0 THEN 1 ELSE 2 * Pow2(n - 1)

Range(s) == {s[i] : i \in 1..Len(s)}

\* str.lower(), on the letters the model's texts use
LowerChar(c) ==
    CASE c = "T" -> "t" [] c = "N" -> "n" [] c = "F" -> "f" [] c = "A" -> "a"
      [] c = "S" -> "s" [] c = "M" -> "m" [] c = "E" -> "e" [] c = "G" -> "g"
      [] c = "B" -> "b" [] c = "I" -> "i" [] c = "L" -> "l" [] c = "O" -> "o"
      [] c = "W" -> "w" [] c = "D" -> "d" [] c = "R" -> "r" [] c = "H" -> "h"
      [] OTHER -> c

\* str.lower() that leaves the text as it is
LowerNot(s) == s

RECURSIVE Lower(_)
Lower(s) ==
    IF s = "" THEN ""
    ELSE LowerChar(SubSeq(s, 1, 1)) \o Lower(SubSeq(s, 2, Len(s)))

\* str.upper(), on the letters a to z
UpperChar(c) ==
    CASE c = "a" -> "A" [] c = "b" -> "B" [] c = "c" -> "C" [] c = "d" -> "D"
      [] c = "e" -> "E" [] c = "f" -> "F" [] c = "g" -> "G" [] c = "h" -> "H"
      [] c = "i" -> "I" [] c = "j" -> "J" [] c = "k" -> "K" [] c = "l" -> "L"
      [] c = "m" -> "M" [] c = "n" -> "N" [] c = "o" -> "O" [] c = "p" -> "P"
      [] c = "q" -> "Q" [] c = "r" -> "R" [] c = "s" -> "S" [] c = "t" -> "T"
      [] c = "u" -> "U" [] c = "v" -> "V" [] c = "w" -> "W" [] c = "x" -> "X"
      [] c = "y" -> "Y" [] c = "z" -> "Z" [] OTHER -> c

RECURSIVE Upper(_)
Upper(s) ==
    IF s = "" THEN ""
    ELSE UpperChar(SubSeq(s, 1, 1)) \o Upper(SubSeq(s, 2, Len(s)))

\* str.strip(), with the space as the white space
RECURSIVE Strip(_)
Strip(s) ==
    IF s = "" THEN ""
    ELSE IF SubSeq(s, 1, 1) = " " THEN Strip(SubSeq(s, 2, Len(s)))
    ELSE IF SubSeq(s, Len(s), Len(s)) = " " THEN Strip(SubSeq(s, 1, Len(s) - 1))
    ELSE s

\* str.startswith
StartsWith(s, prefix) ==
    Len(s) >= Len(prefix) /\ SubSeq(s, 1, Len(prefix)) = prefix

\* is_configured, of an optional string
IsConfigured(value) ==
    IF value = None THEN FALSE
    ELSE LET value_str == Strip(value[1])
         IN  value_str # "" /\ ~StartsWith(Upper(value_str), "YOUR_")

\* sub in s, as a test that finds every keyword
ContainsAlways(s, sub) == TRUE

\* sub in s, as the test s == sub
ContainsWhole(s, sub) == s = sub

\* sub in s
Contains(s, sub) ==
    \E i \in 1..(Len(s) - Len(sub) + 1) : SubSeq(s, i, i + Len(sub) - 1) = sub

-----------------------------------------------------------------------------
(* _SeenCache                                                              *)

SeenCache(maxlen) == [maxlen |-> maxlen, items |-> <<>>, index |-> {}]

\* add with the membership test dropped: every key is appended again
SeenCacheAddNoTest(c, key) ==
    LET items1 == Append(c.items, key)
        index1 == c.index \cup {key}
    IN  IF Len(items1) > c.maxlen
        THEN [ret |-> TRUE,
              cache |-> [c EXCEPT !.items = Tail(items1),
                                  !.index = index1 \ {items1[1]}]]
        ELSE [ret |-> TRUE,
              cache |-> [c EXCEPT !.items = items1, !.index = index1]]

\* add that evicts the newest key instead of the oldest
SeenCacheAddEvictNewest(c, key) ==
    IF key \in c.index
    THEN [ret |-> FALSE, cache |-> c]
    ELSE IF Len(c.items) + 1 > c.maxlen
         THEN [ret |-> TRUE, cache |-> c]
         ELSE [ret |-> TRUE,
               cache |-> [c EXCEPT !.items = Append(c.items, key),
                                   !.index = c.index \cup {key}]]

\* add that never evicts
SeenCacheAddNoEvict(c, key) ==
    IF key \in c.index
    THEN [ret |-> FALSE, cache |-> c]
    ELSE [ret |-> TRUE,
          cache |-> [c EXCEPT !.items = Append(c.items, key),
                              !.index = c.index \cup {key}]]

\* _SeenCache.add: the returned bool and the cache after the call
SeenCacheAdd(c, key) ==
    IF key \in c.index
    THEN [ret |-> FALSE, cache |-> c]
    ELSE LET items1 == Append(c.items, key)
             index1 == c.index \cup {key}
         IN  IF Len(items1) > c.maxlen
             THEN [ret |-> TRUE,
                   cache |-> [c EXCEPT !.items = Tail(items1),
                                       !.index = index1 \ {items1[1]}]]
             ELSE [ret |-> TRUE,
                   cache |-> [c EXCEPT !.items = items1, !.index = index1]]

-----------------------------------------------------------------------------
(* Events of the upstream SDK.  msg_id stands for the identifier           *)
(* attributes that _event_key tries before create_time (msg_id ... logId), *)
(* create_time for create_time / createTime / timestamp, base_id for the   *)
(* same attributes of event.base_message.  A user has a userId (the id     *)
(* candidates of _author_id) and a nickname (the name candidates of        *)
(* _display_name).  Only comment events have the attribute "comment" and   *)
(* only gift events the attribute "gift".  The avatar is not modelled.     *)

User(id, nick) == Some([userId |-> id, nickname |-> nick])
Ann == User(Some("7"), Some("ann"))
Bob == User(None, Some("bob"))

CommentEvent(id, ct, user, text) ==
    [typ |-> "comment", msg_id |-> id, create_time |-> ct, base_id |-> None,
     user |-> user, comment |-> text]

Gift(id, name, coins) ==
    Some([id |-> id, name |-> name, diamond_count |-> coins])

GiftEvent(id, ct, user, gift, repeat) ==
    [typ |-> "gift", msg_id |-> id, create_time |-> ct, base_id |-> None,
     user |-> user, gift |-> gift, repeat_count |-> repeat]

LikeEvent(id, ct, user, n) ==
    [typ |-> "like", msg_id |-> id, create_time |-> ct, base_id |-> None,
     user |-> user, likeCount |-> n]

\* the events the SDK delivers: two comments with different keys (one
\* synthesized, one explicit) and a comment without user and text; gifts of
\* 1 coin, of 100 coins and one without gift data; likes with and without an
\* explicit identifier
CommentEvents ==
    {CommentEvent(None, None, Ann, Some("tnt")),
     CommentEvent(Some("m1"), None, Ann, Some("Big gold")),
     CommentEvent(None, None, None, None)}

GiftEvents ==
    {GiftEvent(None, None, Ann, Gift(None, Some("Rose"), Some(1)), None),
     GiftEvent(Some("g1"), None, Ann, Gift(None, Some("Lion"), Some(100)), None),
     GiftEvent(None, None, Bob, None, Some(3))}

LikeEvents ==
    {LikeEvent(Some("k1"), None, Ann, Some(2)),
     LikeEvent(Some("k2"), None, Ann, Some(2)),
     LikeEvent(None, None, Ann, Some(7))}

\* _display_name
DisplayName(e) ==
    IF e.user # None /\ TruthyStr(e.user[1].nickname)
    THEN e.user[1].nickname[1]
    ELSE "Unknown"

\* _author_id
AuthorId(e) ==
    IF e.user # None /\ TruthyStr(e.user[1].userId)
    THEN e.user[1].userId[1]
    ELSE DisplayName(e)

\* _event_key: an optional string
EventKey(e) ==
    IF TruthyStr(e.msg_id) THEN e.msg_id
    ELSE IF TruthyInt(e.create_time) THEN Some(ToString(e.create_time[1]))
    ELSE IF TruthyStr(e.base_id) THEN e.base_id
    ELSE
    LET author == AuthorId(e)
        \* the attribute loop has returned for every truthy create_time
        create_time == OrInt(e.create_time, None)
    IN  IF "comment" \in DOMAIN e
        THEN LET comment_text == OrStr(e.comment, Some(""))[1]
             IN  IF author # "" \/ comment_text # ""
                 THEN Some("comment:" \o author \o ":" \o comment_text \o ":"
                           \o FmtInt(create_time))
                 ELSE None
        ELSE IF "gift" \in DOMAIN e /\ e.gift # None
        THEN LET gift == e.gift[1]
                 gift_id == gift.id
                 gift_name == gift.name
                 shown == IF TruthyInt(gift_id) THEN FmtInt(gift_id)
                          ELSE FmtStr(gift_name)
             IN  IF author # "" \/ TruthyInt(gift_id) \/ TruthyStr(gift_name)
                 THEN Some("gift:" \o author \o ":" \o shown \o ":"
                           \o FmtInt(create_time))
                 ELSE None
        ELSE None

-----------------------------------------------------------------------------
(* The bridge's event handlers (TikTokChatBridge._register_handlers).      *)

\* [entry.get("author_id") for entry in queue]
AuthorIds(q) == {Get(q[i], "author_id") : i \in 1..Len(q)}

PickaxeKeys == <<"wood", "stone", "iron", "gold", "diamond", "netherite">>
PickaxeType(k) ==
    CASE k = "wood" -> "wooden_pickaxe" [] k = "stone" -> "stone_pickaxe"
      [] k = "iron" -> "iron_pickaxe" [] k = "gold" -> "golden_pickaxe"
      [] k = "diamond" -> "diamond_pickaxe" [] k = "netherite" -> "netherite_pickaxe"

\* the dedup test without the early return
DedupNoSkip(seen, key) ==
    IF TruthyStr(key)
    THEN LET r == SeenCacheAdd(seen, key[1])
         IN  [skip |-> FALSE, cache |-> r.cache,
              outcome |-> IF r.ret THEN "new" ELSE "duplicate"]
    ELSE [skip |-> FALSE, cache |-> seen, outcome |-> "nokey"]

\* the dedup test that drops an event without a key
DedupFailClosed(seen, key) ==
    IF TruthyStr(key)
    THEN LET r == SeenCacheAdd(seen, key[1])
         IN  [skip |-> ~r.ret, cache |-> r.cache,
              outcome |-> IF r.ret THEN "new" ELSE "duplicate"]
    ELSE [skip |-> TRUE, cache |-> seen, outcome |-> "nokey"]

\* "if key and not seen.add(key): return": whether the handler returns, the
\* cache after the test and which case it was.  An absent key never reaches
\* the cache.
Dedup(seen, key) ==
    IF TruthyStr(key)
    THEN LET r == SeenCacheAdd(seen, key[1])
         IN  [skip |-> ~r.ret, cache |-> r.cache,
              outcome |-> IF r.ret THEN "new" ELSE "duplicate"]
    ELSE [skip |-> FALSE, cache |-> seen, outcome |-> "nokey"]

\* the places of _handle_comment that scan a queue for the author id, by
\* their keywords, and the queue each scans
Sites == {"fast", "slow", "big"} \cup Range(PickaxeKeys)
SiteQueue(site) ==
    CASE site \in {"fast", "slow"} -> "fast_slow" [] site = "big" -> "big"
      [] OTHER -> "pickaxe"

\* _handle_comment, where seen[site] are the author ids that the scan at site
\* yields and base[name] is the queue `name` when the handler appends to it
HandleCommentSeeing(e, seen, base) ==
    LET d == Dedup(seen_comment_ids, EventKey(e))
    IN  /\ last_comment_time' = TRUE
        /\ seen_comment_ids' = d.cache
        /\ last' = [op |-> "comment", outcome |-> d.outcome]
        /\ UNCHANGED <<seen_gift_ids, seen_like_ids, like_counters, liked,
                       last_gift_time, tnt_superchat_queue, conn,
                       host, standalone>>
        /\ IF d.skip
           THEN /\ UNCHANGED <<tnt_queue, mega_tnt_queue, nextSerial>>
                /\ fast_slow_queue' = base.fast_slow
                /\ big_queue' = base.big
                /\ pickaxe_queue' = base.pickaxe
           ELSE
           LET display_name == DisplayName(e)
               author_id == AuthorId(e)
               message == OrStr(e.comment, Some(""))[1]
               text_lower == Lower(message)
               highlight == IF Contains(text_lower, "tnt") THEN Some("tnt")
                            ELSE None
               payload(h, n) ==
                   [author_id |-> author_id, display_name |-> display_name,
                    message |-> message, highlight |-> h, serial |-> n]
               mega == Contains(text_lower, "megatnt")
               n1 == nextSerial + 1
               n2 == IF mega THEN n1 + 1 ELSE n1
               choice == IF /\ Contains(text_lower, "fast")
                            /\ Some(author_id) \notin seen["fast"]
                         THEN Some("Fast")
                         ELSE IF /\ Contains(text_lower, "slow")
                                 /\ Some(author_id) \notin seen["slow"]
                         THEN Some("Slow")
                         ELSE None
               n3 == IF choice # None THEN n2 + 1 ELSE n2
               big == /\ Contains(text_lower, "big")
                      /\ Some(author_id) \notin seen["big"]
               n4 == IF big THEN n3 + 1 ELSE n3
               hits == {i \in 1..Len(PickaxeKeys) :
                           /\ Contains(text_lower, PickaxeKeys[i])
                           /\ Some(author_id) \notin seen[PickaxeKeys[i]]}
               first == CHOOSE i \in hits : \A j \in hits : i <= j
           IN  /\ tnt_queue' = Append(tnt_queue, payload(highlight, nextSerial))
               /\ mega_tnt_queue' =
                      IF mega
                      THEN Append(mega_tnt_queue, payload(Some("megatnt"), n1))
                      ELSE mega_tnt_queue
               /\ fast_slow_queue' =
                      IF choice # None
                      THEN Append(base.fast_slow,
                                  [author_id |-> author_id,
                                   display_name |-> display_name,
                                   choice |-> choice[1], serial |-> n2])
                      ELSE base.fast_slow
               /\ big_queue' =
                      IF big
                      THEN Append(base.big,
                                  [author_id |-> author_id,
                                   display_name |-> display_name, serial |-> n3])
                      ELSE base.big
               /\ pickaxe_queue' =
                      IF hits # {}
                      THEN Append(base.pickaxe,
                                  [author_id |-> author_id,
                                   display_name |-> display_name,
                                   pickaxe_type |-> PickaxeType(PickaxeKeys[first]),
                                   serial |-> n4])
                      ELSE base.pickaxe
               /\ nextSerial' = IF hits # {} THEN n4 + 1 ELSE n4

\* the three queues that _handle_comment scans
Scanned ==
    [fast_slow |-> fast_slow_queue, big |-> big_queue, pickaxe |-> pickaxe_queue]

\* _handle_comment, run between two steps of the consumer
HandleComment(e) ==
    /\ HandleCommentSeeing(e, [s \in Sites |-> AuthorIds(Scanned[SiteQueue(s)])],
                           Scanned)
    /\ UNCHANGED <<pc, popped>>

\* quantity of _handle_gift: the repeat count, at least 1
Quantity(e) ==
    LET raw_quantity == e.repeat_count
    IN  IF raw_quantity # None THEN Max(raw_quantity[1], 1) ELSE 1

\* coin_value of _handle_gift: "a or b" passes over a diamond count of 0
CoinValue(e) ==
    IF e.gift # None THEN OrInt(e.gift[1].diamond_count, None) ELSE None

\* the thresholds of _handle_gift, with 50 coins counted as more than 50
GiftCountsFrom50(coin_value, quantity) ==
    IF coin_value # None
    THEN IF coin_value[1] >= 50 THEN [tnt |-> 0, mega |-> 10]
         ELSE IF coin_value[1] > 1 THEN [tnt |-> 5, mega |-> 5]
         ELSE [tnt |-> 10, mega |-> 0]
    ELSE IF quantity > 1 THEN [tnt |-> 5, mega |-> 5]
    ELSE [tnt |-> 10, mega |-> 0]

\* tnt_to_enqueue and mega_to_enqueue of _handle_gift
GiftCounts(coin_value, quantity) ==
    IF coin_value # None
    THEN IF coin_value[1] > 50 THEN [tnt |-> 0, mega |-> 10]
         ELSE IF coin_value[1] > 1 THEN [tnt |-> 5, mega |-> 5]
         ELSE [tnt |-> 10, mega |-> 0]
    ELSE IF quantity > 1 THEN [tnt |-> 5, mega |-> 5]
    ELSE [tnt |-> 10, mega |-> 0]

\* base_payload of _handle_gift without its priority
GiftPayloadPlain(author_id, display_name, message, h, c, n) ==
    [author_id |-> author_id, display_name |-> display_name,
     message |-> message, highlight |-> h, count |-> c, serial |-> n]

\* {**base_payload, "highlight": h, "count": c} of _handle_gift
GiftPayload(author_id, display_name, message, h, c, n) ==
    [author_id |-> author_id, display_name |-> display_name,
     message |-> message, priority |-> "gift", highlight |-> h,
     count |-> c, serial |-> n]

\* _handle_gift
HandleGift(e) ==
    LET d == Dedup(seen_gift_ids, EventKey(e))
    IN  /\ last_gift_time' = TRUE
        /\ seen_gift_ids' = d.cache
        /\ last' = [op |-> "gift", outcome |-> d.outcome]
        /\ UNCHANGED <<seen_comment_ids, seen_like_ids, like_counters, liked,
                       last_comment_time, tnt_superchat_queue, fast_slow_queue,
                       big_queue, pickaxe_queue, conn, pc, host, standalone, popped>>
        /\ IF d.skip
           THEN UNCHANGED <<tnt_queue, mega_tnt_queue, nextSerial>>
           ELSE
           LET display_name == DisplayName(e)
               author_id == AuthorId(e)
               gift_name == IF e.gift # None THEN e.gift[1].name ELSE None
               quantity == Quantity(e)
               coin_value == CoinValue(e)
               message == "Gift: " \o OrStr(gift_name, Some("TikTok gift"))[1]
               base_payload(h, c, n) ==
                   GiftPayload(author_id, display_name, message, h, c, n)
               tnt_to_enqueue == GiftCounts(coin_value, quantity).tnt
               mega_to_enqueue == GiftCounts(coin_value, quantity).mega
               n1 == IF tnt_to_enqueue # 0 THEN nextSerial + 1 ELSE nextSerial
           IN  /\ tnt_queue' =
                      IF tnt_to_enqueue # 0
                      THEN Append(tnt_queue,
                                  base_payload(Some("tnt"), tnt_to_enqueue,
                                               nextSerial))
                      ELSE tnt_queue
               /\ mega_tnt_queue' =
                      IF mega_to_enqueue # 0
                      THEN Append(mega_tnt_queue,
                                  base_payload(Some("megatnt"), mega_to_enqueue, n1))
                      ELSE mega_tnt_queue
               /\ nextSerial' = IF mega_to_enqueue # 0 THEN n1 + 1 ELSE n1

\* the dicts _handle_like appends for `bundles` full bundles
RECURSIVE LikePayloads(_, _, _, _)
LikePayloads(author_id, display_name, bundles, n) ==
    IF bundles <= 0 THEN <<>>
    ELSE <<[author_id |-> author_id, display_name |-> display_name,
            message |-> "Likes x5", highlight |-> Some("megatnt"),
            serial |-> n]>>
         \o LikePayloads(author_id, display_name, bundles - 1, n + 1)

\* like_count of _handle_like as it is added: 1 for a missing count or a
\* count of 0, and at least 1
LikeCount(e) == Max(OrInt(e.likeCount, Some(1))[1], 1)

\* the value of a dict of counters at a key, 0 for a key it does not hold
CounterGet(counters, key) ==
    IF key \in DOMAIN counters THEN counters[key] ELSE 0

\* a handler that takes one bundle from the counter
LikeBundleOnce(before, like_count) ==
    LET total == before + like_count
    IN  IF total >= 5 THEN [bundles |-> 1, rest |-> total - 5]
        ELSE [bundles |-> 0, rest |-> total]

\* a handler that emits one request however many bundles are full
LikeBundleOneRequest(before, like_count) ==
    LET total == before + like_count
    IN  [bundles |-> IF total >= 5 THEN 1 ELSE 0, rest |-> total % 5]

\* "// 5" and "%= 5" of _handle_like: the full bundles and the counter left
LikeBundle(before, like_count) ==
    LET total == before + like_count
    IN  [bundles |-> total \div 5, rest |-> total % 5]

\* _handle_like (the SDK provides LikeEvent)
HandleLike(e) ==
    LET d == Dedup(seen_like_ids, EventKey(e))
    IN  /\ seen_like_ids' = d.cache
        /\ last' = [op |-> "like", outcome |-> d.outcome]
        /\ UNCHANGED <<seen_comment_ids, seen_gift_ids, times, tnt_queue,
                       tnt_superchat_queue, fast_slow_queue, big_queue,
                       pickaxe_queue, conn, pc, host, standalone, popped>>
        /\ IF d.skip
           THEN UNCHANGED <<like_counters, liked, mega_tnt_queue, nextSerial>>
           ELSE
           LET display_name == DisplayName(e)
               author_id == AuthorId(e)
               before == CounterGet(like_counters, author_id)
               b == LikeBundle(before, LikeCount(e))
               bundles == b.bundles
           IN  /\ like_counters' =
                      [a \in DOMAIN like_counters \cup {author_id} |->
                          IF a = author_id THEN b.rest ELSE like_counters[a]]
               /\ liked' =
                      [a \in DOMAIN liked \cup {author_id} |->
                          IF a = author_id
                          THEN CounterGet(liked, author_id) + LikeCount(e)
                          ELSE liked[a]]
               /\ mega_tnt_queue' =
                      mega_tnt_queue
                      \o LikePayloads(author_id, display_name, bundles, nextSerial)
               /\ nextSerial' = nextSerial + bundles

-----------------------------------------------------------------------------
(* The consumer: the "process chat queues" block of game() in main.py,     *)
(* run by the main thread while the handlers run on the event-loop thread. *)
(* Each "if queue:" test and each "queue.pop(0)" is one step, so that the  *)
(* other thread may run between the test and the pop.  What the game does  *)
(* with a dequeued entry is not modelled.                                  *)

\* list.pop() : the last element instead of the first
PopLast(q) == [ret |-> q[Len(q)], list |-> SubSeq(q, 1, Len(q) - 1)]

\* list.pop(0) that leaves the element in the list
PopKeep(q) == [ret |-> Head(q), list |-> q]

\* list.pop(0)
Pop0(q) == [ret |-> Head(q), list |-> Tail(q)]

\* the queue the block handles after `name`
NextQueue(name) ==
    CASE name = "tnt" -> "mega" [] name = "mega" -> "superchat"
      [] name = "superchat" -> "fast_slow" [] name = "fast_slow" -> "big"
      [] name = "big" -> "pickaxe" [] name = "pickaxe" -> "idle"

\* the pop interval has elapsed: the block is entered
\* a frame that clears the bridge's restart flag
ConsumerTickClearing ==
    /\ pc = "idle"
    /\ pc' = "tnt"
    /\ restart_pending' = FALSE
    /\ UNCHANGED <<client, loop, futures, health_task, auto_reconnect,
                   backoff_attempts, timers, delays, unique_id>>
    /\ UNCHANGED <<queues, dedup, times, host, standalone, last, nextSerial,
                   popped>>

ConsumerTick ==
    /\ pc = "idle"
    /\ pc' = "tnt"
    /\ UNCHANGED <<queues, dedup, times, conn, host, standalone, last,
                   nextSerial, popped>>

\* a block that pops without the test
TestBlind(name, q) ==
    /\ pc = name
    /\ pc' = name \o "_pop"
    /\ UNCHANGED <<queues, dedup, times, conn, host, standalone, last,
                   nextSerial, popped>>

\* if queue:
Test(name, q) ==
    /\ pc = name
    /\ pc' = IF q # <<>> THEN name \o "_pop" ELSE NextQueue(name)
    /\ UNCHANGED <<queues, dedup, times, conn, host, standalone, last,
                   nextSerial, popped>>

\* queue.pop(0) and the use of the entry; IndexError ends the game loop
Pop(name, q) ==
    /\ pc = name \o "_pop"
    /\ IF q = <<>>
       THEN pc' = "IndexError" /\ UNCHANGED popped
       ELSE /\ pc' = NextQueue(name)
            /\ popped' = popped \cup {[queue |-> name, entry |-> Pop0(q).ret]}
    /\ UNCHANGED <<dedup, times, conn, host, standalone, last, nextSerial>>

TestTnt == Test("tnt", tnt_queue)
PopTnt ==
    /\ Pop("tnt", tnt_queue)
    /\ tnt_queue' = IF tnt_queue = <<>> THEN tnt_queue ELSE Pop0(tnt_queue).list
    /\ UNCHANGED <<tnt_superchat_queue, fast_slow_queue, big_queue,
                   pickaxe_queue, mega_tnt_queue>>

TestMega == Test("mega", mega_tnt_queue)
PopMega ==
    /\ Pop("mega", mega_tnt_queue)
    /\ mega_tnt_queue' = IF mega_tnt_queue = <<>> THEN mega_tnt_queue
                         ELSE Pop0(mega_tnt_queue).list
    /\ UNCHANGED <<tnt_queue, tnt_superchat_queue, fast_slow_queue, big_queue,
                   pickaxe_queue>>

TestSuperchat == Test("superchat", tnt_superchat_queue)
PopSuperchat ==
    /\ Pop("superchat", tnt_superchat_queue)
    /\ tnt_superchat_queue' = IF tnt_superchat_queue = <<>>
                              THEN tnt_superchat_queue
                              ELSE Pop0(tnt_superchat_queue).list
    /\ UNCHANGED <<tnt_queue, fast_slow_queue, big_queue, pickaxe_queue,
                   mega_tnt_queue>>

TestFastSlow == Test("fast_slow", fast_slow_queue)
PopFastSlow ==
    /\ Pop("fast_slow", fast_slow_queue)
    /\ fast_slow_queue' = IF fast_slow_queue = <<>> THEN fast_slow_queue
                          ELSE Pop0(fast_slow_queue).list
    /\ UNCHANGED <<tnt_queue, tnt_superchat_queue, big_queue, pickaxe_queue,
                   mega_tnt_queue>>

TestBig == Test("big", big_queue)
PopBig ==
    /\ Pop("big", big_queue)
    /\ big_queue' = IF big_queue = <<>> THEN big_queue ELSE Pop0(big_queue).list
    /\ UNCHANGED <<tnt_queue, tnt_superchat_queue, fast_slow_queue,
                   pickaxe_queue, mega_tnt_queue>>

TestPickaxe == Test("pickaxe", pickaxe_queue)
PopPickaxe ==
    /\ Pop("pickaxe", pickaxe_queue)
    /\ pickaxe_queue' = IF pickaxe_queue = <<>> THEN pickaxe_queue
                        ELSE Pop0(pickaxe_queue).list
    /\ UNCHANGED <<tnt_queue, tnt_superchat_queue, fast_slow_queue, big_queue,
                   mega_tnt_queue>>

\* the position of a scan among the scans of its queue
SitePos(site) ==
    CASE site = "fast" -> 1 [] site = "slow" -> 2 [] site = "big" -> 1
      [] OTHER -> CHOOSE i \in 1..Len(PickaxeKeys) : PickaxeKeys[i] = site

\* the author ids a scan of q yields when the consumer pops the head of q
\* after the scan has read j - 1 entries: the entry at j moves to a position
\* that the scan has passed
ScanSkipping(q, j) == AuthorIds(SubSeq(q, 1, j - 1) \o SubSeq(q, j + 1, Len(q)))

\* _handle_comment on the event-loop thread, with the pop of the main thread
\* between two reads of the scan at `site`: the list comprehension iterates
\* the list that pop(0) shifts, and neither thread takes a lock
RaceComment(e, site, j) ==
    LET name == SiteQueue(site)
        q == Scanned[name]
        author == Some(AuthorId(e))
        text_lower == Lower(OrStr(e.comment, Some(""))[1])
        \* the scans of this queue before `site` ran and did not append
        reached ==
            /\ Contains(text_lower, site)
            /\ \A s \in Sites :
                   (SiteQueue(s) = name /\ SitePos(s) < SitePos(site))
                       => ~(Contains(text_lower, s) /\ author \notin AuthorIds(q))
        seen == [s \in Sites |->
                    IF SiteQueue(s) # name THEN AuthorIds(Scanned[SiteQueue(s)])
                    ELSE IF SitePos(s) < SitePos(site) THEN AuthorIds(q)
                    ELSE IF s = site THEN ScanSkipping(q, j)
                    ELSE AuthorIds(Tail(q))]
    IN  /\ pc = name \o "_pop"
        /\ j \in 2..Len(q)
        /\ ~Dedup(seen_comment_ids, EventKey(e)).skip
        /\ reached
        /\ HandleCommentSeeing(e, seen, [Scanned EXCEPT ![name] = Pop0(q).list])
        /\ pc' = NextQueue(name)
        /\ popped' = popped \cup {[queue |-> name, entry |-> Pop0(q).ret]}

Consumer ==
    \/ ConsumerTick
    \/ TestTnt \/ PopTnt
    \/ TestMega \/ PopMega
    \/ TestSuperchat \/ PopSuperchat
    \/ TestFastSlow \/ PopFastSlow
    \/ TestBig \/ PopBig
    \/ TestPickaxe \/ PopPickaxe

-----------------------------------------------------------------------------
(* handle_youtube_poll of main.py: it runs on the same event loop as the   *)
(* bridge's handlers and appends to the same queues.  Its inputs are the   *)
(* subscriber count and the new messages that the YouTube API returns.     *)

YoutubeMessage(author, channel, text, sc) ==
    [author |-> author, author_channel_id |-> channel, message |-> text,
     sc_details |-> sc, ss_details |-> None]

YoutubeMessages ==
    {YoutubeMessage("ann", Some("7"), Some("TNT slow"), Some("5.00"))}

\* the messages of one poll
MaxPoll == 1
Polls == UNION {[1..n -> YoutubeMessages] : n \in 0..MaxPoll}

\* subscriber counts the API reports
MaxSubscribers == 1

\* the body of "for message in new_messages", on the queues st
YoutubeOne(st, message) ==
    LET author == message.author
        text == OrStr(message.message, Some(""))[1]
        author_id == OrStr(message.author_channel_id, Some(author))[1]
        is_super == message.sc_details # None \/ message.ss_details # None
        text_lower == Lower(text)
        chat_payload(n) ==
            [author_id |-> author_id, display_name |-> author,
             message |-> text, serial |-> n]
        ids(q) == {q[i].author_id : i \in 1..Len(q)}
        tnt == Contains(text_lower, "tnt") /\ author_id \notin ids(st.tnt)
        n1 == IF tnt THEN st.n + 1 ELSE st.n
        super == is_super /\ author_id \notin ids(st.superchat)
        n2 == IF super THEN n1 + 1 ELSE n1
        free == author_id \notin ids(st.fast_slow)
        choice == IF Contains(text_lower, "fast") /\ free THEN Some("Fast")
                  ELSE IF Contains(text_lower, "slow") /\ free THEN Some("Slow")
                  ELSE None
        n3 == IF choice # None THEN n2 + 1 ELSE n2
        big == Contains(text_lower, "big") /\ author_id \notin ids(st.big)
        n4 == IF big THEN n3 + 1 ELSE n3
        hits == {i \in 1..Len(PickaxeKeys) : Contains(text_lower, PickaxeKeys[i])}
        first == CHOOSE i \in hits : \A j \in hits : i <= j
        pick == hits # {} /\ author_id \notin ids(st.pickaxe)
    IN  [tnt |-> IF tnt THEN Append(st.tnt, chat_payload(st.n)) ELSE st.tnt,
         superchat |-> IF super THEN Append(st.superchat, chat_payload(n1))
                       ELSE st.superchat,
         fast_slow |-> IF choice # None
                       THEN Append(st.fast_slow,
                                   [author_id |-> author_id,
                                    display_name |-> author,
                                    choice |-> choice[1], serial |-> n2])
                       ELSE st.fast_slow,
         big |-> IF big
                 THEN Append(st.big, [author_id |-> author_id,
                                      display_name |-> author, serial |-> n3])
                 ELSE st.big,
         pickaxe |-> IF pick
                     THEN Append(st.pickaxe,
                                 [author_id |-> author_id, display_name |-> author,
                                  pickaxe_type |-> PickaxeType(PickaxeKeys[first]),
                                  serial |-> n4])
                     ELSE st.pickaxe,
         n |-> IF pick THEN n4 + 1 ELSE n4]

RECURSIVE YoutubeAll(_, _)
YoutubeAll(st, messages) ==
    IF messages = <<>> THEN st
    ELSE YoutubeAll(YoutubeOne(st, Head(messages)), Tail(messages))

\* handle_youtube_poll
HandleYoutubePoll(new_subscribers, new_messages) ==
    LET gained == /\ subscribers # None
                  /\ new_subscribers # None
                  /\ new_subscribers[1] > subscribers[1]
        n0 == IF gained THEN nextSerial + 1 ELSE nextSerial
        st == YoutubeAll([tnt |-> tnt_queue, superchat |-> tnt_superchat_queue,
                          fast_slow |-> fast_slow_queue, big |-> big_queue,
                          pickaxe |-> pickaxe_queue, n |-> n0], new_messages)
    IN  /\ subscribers' = IF gained THEN new_subscribers ELSE subscribers
        /\ mega_tnt_queue' =
               IF gained
               THEN Append(mega_tnt_queue,
                           [str |-> "New Subscriber", serial |-> nextSerial])
               ELSE mega_tnt_queue
        /\ tnt_queue' = st.tnt
        /\ tnt_superchat_queue' = st.superchat
        /\ fast_slow_queue' = st.fast_slow
        /\ big_queue' = st.big
        /\ pickaxe_queue' = st.pickaxe
        /\ nextSerial' = st.n
        /\ last' = [op |-> "youtube", outcome |-> "polled"]
        /\ UNCHANGED <<dedup, times, conn, pc, standalone, popped>>

-----------------------------------------------------------------------------
(* The client lifecycle of TikTokChatBridge.  client is the bridge's       *)
(* current client: its identity and whether the SDK reports it connected.  *)
(* futures counts the client.start() futures that have not completed, on   *)
(* the current client (cur) and on clients already replaced (old).  timers *)
(* holds the delay of every call_later callback that has not run.          *)

Outcomes == {"UserOfflineError", "AlreadyConnectedError", "SignAPIError",
             "Exception", "returned"}

\* _start_client without the test of the loop
StartClientAnyway(loop_, client_, futures_) ==
    IF client_.connected THEN futures_
    ELSE [futures_ EXCEPT !.cur = @ + 1]

\* _start_client: the futures after the call
StartClient(loop_, client_, futures_) ==
    IF ~loop_ THEN futures_
    ELSE IF client_.connected THEN futures_
    ELSE [futures_ EXCEPT !.cur = @ + 1]

\* TikTokChatBridge.start
Start ==
    /\ loop' = TRUE
    /\ health_task' = TRUE
    /\ futures' = StartClient(TRUE, client, futures)
    /\ last' = [op |-> "start", outcome |-> "called"]
    /\ UNCHANGED <<client, restart_pending, auto_reconnect, backoff_attempts,
                   timers, delays, unique_id>>
    /\ UNCHANGED <<queues, dedup, times, host, pc, standalone, nextSerial, popped>>

\* the SDK connects a client that is starting and emits ConnectEvent: _on_connect
Connect(which) ==
    /\ futures[which] > 0
    /\ which = "cur" => ~client.connected
    /\ client' = IF which = "cur" THEN [client EXCEPT !.connected = TRUE]
                 ELSE client
    /\ backoff_attempts' = 0
    /\ delays' = <<>>
    /\ last' = [op |-> "connect", outcome |-> which]
    /\ UNCHANGED <<loop, futures, health_task, restart_pending, auto_reconnect,
                   timers, unique_id>>
    /\ UNCHANGED <<queues, dedup, times, host, pc, standalone, nextSerial, popped>>

BaseSeconds == 5
MaxSeconds == 60
FlatSeconds == 15

\* a backoff that does not double
NextBackoffDelayLinear(attempts) ==
    [attempts |-> attempts + 1,
     delay |-> Min(BaseSeconds * (attempts + 1), MaxSeconds)]

\* _next_backoff_delay: the counter after the call and the delay returned
NextBackoffDelay(attempts) ==
    [attempts |-> attempts + 1,
     delay |-> Min(BaseSeconds * Pow2((attempts + 1) - 1), MaxSeconds)]

\* _schedule_restart that never schedules
ScheduleRestartNever(delay_seconds) ==
    [pending |-> restart_pending, timers |-> timers]

\* _schedule_restart without the test of _restart_pending
ScheduleRestartNoGuard(delay_seconds) ==
    IF ~auto_reconnect THEN [pending |-> restart_pending, timers |-> timers]
    ELSE IF ~loop THEN [pending |-> restart_pending, timers |-> timers]
    ELSE [pending |-> TRUE, timers |-> Append(timers, delay_seconds)]

\* _schedule_restart without the test of _auto_reconnect
ScheduleRestartAnyway(delay_seconds) ==
    IF ~loop \/ restart_pending
    THEN [pending |-> restart_pending, timers |-> timers]
    ELSE [pending |-> TRUE, timers |-> Append(timers, delay_seconds)]

\* _schedule_restart: restart_pending and timers after the call
ScheduleRestart(delay_seconds) ==
    IF ~auto_reconnect THEN [pending |-> restart_pending, timers |-> timers]
    ELSE IF ~loop \/ restart_pending
    THEN [pending |-> restart_pending, timers |-> timers]
    ELSE [pending |-> TRUE, timers |-> Append(timers, delay_seconds)]

\* _reset_client that keeps the client object
ResetClientKeep == client

\* _reset_client: the new current client, with the handlers registered on it
\* (the old one is asked to stop if it is connected)
ResetClient == [id |-> client.id + 1, connected |-> FALSE, handlers |-> TRUE]

\* _on_future_done that grows the backoff on every outcome
OnFutureDoneAllBackoff(which, outcome) ==
    /\ futures[which] > 0
    /\ LET b == NextBackoffDelay(backoff_attempts)
           r == ScheduleRestart(b.delay)
       IN  /\ backoff_attempts' = b.attempts
           /\ delays' = IF outcome = "SignAPIError" THEN Append(delays, b.delay)
                        ELSE delays
           /\ client' = ResetClient
           /\ restart_pending' = r.pending
           /\ timers' = r.timers
    /\ futures' = [cur |-> 0, old |-> futures.cur + futures.old - 1]
    /\ last' = [op |-> "done", outcome |-> outcome]
    /\ UNCHANGED <<loop, health_task, auto_reconnect, unique_id>>
    /\ UNCHANGED <<queues, dedup, times, host, pc, standalone, nextSerial, popped>>

\* _on_future_done whose new client starts with empty caches and counters
OnFutureDoneForgetting(which, outcome) ==
    /\ futures[which] > 0
    /\ LET sign == outcome = "SignAPIError"
           b == NextBackoffDelay(backoff_attempts)
           r == ScheduleRestart(IF sign THEN b.delay ELSE FlatSeconds)
       IN  /\ backoff_attempts' = IF sign THEN b.attempts ELSE backoff_attempts
           /\ delays' = IF sign THEN Append(delays, b.delay) ELSE delays
           /\ client' = ResetClient
           /\ restart_pending' = r.pending
           /\ timers' = r.timers
    /\ futures' = [cur |-> 0, old |-> futures.cur + futures.old - 1]
    /\ last' = [op |-> "done", outcome |-> outcome]
    /\ seen_comment_ids' = SeenCache(BridgeCacheLen)
    /\ seen_gift_ids' = SeenCache(BridgeCacheLen)
    /\ seen_like_ids' = SeenCache(BridgeCacheLen)
    /\ like_counters' = <<>>
    /\ UNCHANGED <<loop, health_task, auto_reconnect, unique_id, liked>>
    /\ UNCHANGED <<queues, times, host, pc, standalone, nextSerial, popped>>

\* _on_future_done that empties the TNT queue
OnFutureDoneDraining(which, outcome) ==
    /\ futures[which] > 0
    /\ LET sign == outcome = "SignAPIError"
           b == NextBackoffDelay(backoff_attempts)
           r == ScheduleRestart(IF sign THEN b.delay ELSE FlatSeconds)
       IN  /\ backoff_attempts' = IF sign THEN b.attempts ELSE backoff_attempts
           /\ delays' = IF sign THEN Append(delays, b.delay) ELSE delays
           /\ client' = ResetClient
           /\ restart_pending' = r.pending
           /\ timers' = r.timers
    /\ futures' = [cur |-> 0, old |-> futures.cur + futures.old - 1]
    /\ last' = [op |-> "done", outcome |-> outcome]
    /\ tnt_queue' = <<>>
    /\ UNCHANGED <<tnt_superchat_queue, fast_slow_queue, big_queue,
                   pickaxe_queue, mega_tnt_queue>>
    /\ UNCHANGED <<loop, health_task, auto_reconnect, unique_id>>
    /\ UNCHANGED <<dedup, times, host, pc, standalone, nextSerial, popped>>

\* _on_future_done, for a future of the current or of a replaced client
OnFutureDone(which, outcome) ==
    /\ futures[which] > 0
    /\ LET sign == outcome = "SignAPIError"
           b == NextBackoffDelay(backoff_attempts)
           r == ScheduleRestart(IF sign THEN b.delay ELSE FlatSeconds)
       IN  /\ backoff_attempts' = IF sign THEN b.attempts ELSE backoff_attempts
           /\ delays' = IF sign THEN Append(delays, b.delay) ELSE delays
           /\ client' = ResetClient
           /\ restart_pending' = r.pending
           /\ timers' = r.timers
    /\ futures' = [cur |-> 0, old |-> futures.cur + futures.old - 1]
    /\ last' = [op |-> "done", outcome |-> outcome]
    /\ UNCHANGED <<loop, health_task, auto_reconnect, unique_id>>
    /\ UNCHANGED <<queues, dedup, times, host, pc, standalone, nextSerial, popped>>

\* _do_restart: a call_later callback runs
DoRestart ==
    /\ timers # <<>>
    /\ timers' = Tail(timers)
    /\ restart_pending' = FALSE
    /\ futures' = StartClient(loop, client, futures)
    /\ last' = [op |-> "timer", outcome |-> "expired"]
    /\ UNCHANGED <<client, loop, health_task, auto_reconnect, backoff_attempts,
                   delays, unique_id>>
    /\ UNCHANGED <<queues, dedup, times, host, pc, standalone, nextSerial, popped>>

\* a health round that resets the backoff
LogHealthResetting ==
    /\ health_task
    /\ last' = [op |-> "health", outcome |-> "logged"]
    /\ backoff_attempts' = 0
    /\ delays' = <<>>
    /\ UNCHANGED <<client, loop, futures, health_task, restart_pending,
                   auto_reconnect, timers, unique_id>>
    /\ UNCHANGED <<queues, dedup, times, host, pc, standalone, nextSerial,
                   popped>>

\* one round of _log_health
LogHealth ==
    /\ health_task
    /\ last' = [op |-> "health", outcome |-> "logged"]
    /\ UNCHANGED <<queues, dedup, times, conn, host, pc, standalone, nextSerial,
                   popped>>

-----------------------------------------------------------------------------
(* A stand-alone _SeenCache, driven by add calls with keys of a small set. *)

Keys == {"a", "b", "c", "d", "e"}

\* cache.add(key)
Add(key) ==
    LET r == SeenCacheAdd(cache, key)
    IN  /\ cache' = r.cache
        /\ result' = [key |-> key, ret |-> r.ret, before |-> cache]
        /\ inserted' = IF r.ret THEN Append(inserted, key) ELSE inserted
        /\ UNCHANGED <<queues, dedup, times, conn, host, pc, last, nextSerial,
                       popped, feeds>>

-----------------------------------------------------------------------------
(* The chat polls of youtube.py and instagram.py.  A poll asks the platform *)
(* for the current messages and returns those it has not returned before;  *)
(* each module keeps the ids it has seen in a set that is never emptied.    *)
(* What the platform answers is an input.                                   *)

\* get_new_live_chat_messages that does not remember the ids
GetNewLiveChatMessagesForgetful(response) ==
    [seen |-> seen_messages, raised |-> FALSE, messages |-> response]

\* the loop of get_new_live_chat_messages: an item whose id is not in the set
\* is marked as seen and then built into a message; parser.parse raises on a
\* publishedAt that is no date, which ends the call without a result
RECURSIVE ChatMessagesLoop(_, _, _)
ChatMessagesLoop(items, seen, messages) ==
    IF items = <<>>
    THEN [seen |-> seen, raised |-> FALSE, messages |-> messages]
    ELSE LET item == Head(items)
         IN  IF item.id \notin seen
             THEN IF ~item.ok
                  THEN [seen |-> seen \cup {item.id}, raised |-> TRUE,
                        messages |-> <<>>]
                  ELSE ChatMessagesLoop(Tail(items), seen \cup {item.id},
                                        Append(messages, item))
             ELSE ChatMessagesLoop(Tail(items), seen, messages)

\* get_new_live_chat_messages, on the items of the response
GetNewLiveChatMessages(response) ==
    ChatMessagesLoop(response, seen_messages, <<>>)

\* _is_placeholder and _access_token
IsPlaceholder(value) ==
    \/ ~TruthyStr(value)
    \/ (Len(value[1]) >= 5 /\ SubSeq(value[1], 1, 5) = "YOUR_")
    \/ (Len(value[1]) >= 9
        /\ SubSeq(value[1], Len(value[1]) - 8, Len(value[1])) = "_OPTIONAL")
AccessToken(token) == IF IsPlaceholder(token) THEN None ELSE token

\* what session.get and raise_for_status do: a JSON document, an HTTPError
\* whose body names an error code (or none), or another RequestException
EmptyDoc == [empty |-> TRUE, data |-> None]
Json(doc) == [kind |-> "json", code |-> None, json |-> doc]
HTTPError(code) == [kind |-> "HTTPError", code |-> code, json |-> EmptyDoc]
RequestException == [kind |-> "RequestException", code |-> None, json |-> EmptyDoc]

\* _get without the test of token_invalidated
GraphGetAlways(token, flag, outcome) ==
    IF AccessToken(token) = None
    THEN [ret |-> None, flag |-> flag, requested |-> FALSE]
    ELSE IF outcome.kind = "json"
    THEN [ret |-> Some(outcome.json), flag |-> flag, requested |-> TRUE]
    ELSE IF outcome.kind = "HTTPError" /\ outcome.code = Some(190)
    THEN [ret |-> None, flag |-> TRUE, requested |-> TRUE]
    ELSE [ret |-> None, flag |-> flag, requested |-> TRUE]

\* _get: the value returned, token_invalidated after the call and whether an
\* HTTP request was issued
GraphGet(token, flag, outcome) ==
    IF AccessToken(token) = None
    THEN [ret |-> None, flag |-> flag, requested |-> FALSE]
    ELSE IF flag
    THEN [ret |-> None, flag |-> flag, requested |-> FALSE]
    ELSE IF outcome.kind = "json"
    THEN [ret |-> Some(outcome.json), flag |-> flag, requested |-> TRUE]
    ELSE IF outcome.kind = "HTTPError" /\ outcome.code = Some(190)
    THEN [ret |-> None, flag |-> TRUE, requested |-> TRUE]
    ELSE [ret |-> None, flag |-> flag, requested |-> TRUE]

\* "if data:" on the value _get returns
Truthy(ret) == ret # None /\ ~ret[1].empty

\* a loop over the variants that goes on after the token is invalidated
RECURSIVE FallbackLoopOn(_, _, _, _, _)
FallbackLoopOn(token, outcomes, i, flag, tried) ==
    IF i > Len(outcomes)
    THEN [ret |-> None, flag |-> flag, tried |-> tried]
    ELSE LET r == GraphGet(token, flag, outcomes[i])
             t == Append(tried, [variant |-> i, requested |-> r.requested])
         IN  IF Truthy(r.ret)
             THEN [ret |-> r.ret, flag |-> r.flag, tried |-> t]
             ELSE FallbackLoopOn(token, outcomes, i + 1, r.flag, t)

\* the loop of _get_with_field_fallback and of _get_edge_variant: outcomes[i]
\* is what the platform answers for the variant i; `tried` lists the variants
\* for which _get was called and whether it issued a request
RECURSIVE FallbackLoop(_, _, _, _, _)
FallbackLoop(token, outcomes, i, flag, tried) ==
    IF i > Len(outcomes)
    THEN [ret |-> None, flag |-> flag, tried |-> tried]
    ELSE LET r == GraphGet(token, flag, outcomes[i])
             t == Append(tried, [variant |-> i, requested |-> r.requested])
         IN  IF Truthy(r.ret)
             THEN [ret |-> r.ret, flag |-> r.flag, tried |-> t]
             ELSE IF r.flag
             THEN [ret |-> None, flag |-> r.flag, tried |-> t]
             ELSE FallbackLoop(token, outcomes, i + 1, r.flag, t)

GetWithFieldFallback(token, outcomes) ==
    FallbackLoop(token, outcomes, 1, token_invalidated, <<>>)
GetEdgeVariant(token, outcomes) ==
    FallbackLoop(token, outcomes, 1, token_invalidated, <<>>)

\* the HTTP requests among the _get calls of a loop
Requests(tried) == Cardinality({i \in 1..Len(tried) : tried[i].requested})

\* get_profile_picture_url: the cache, token_invalidated and the requests
\* after the lookup
GetProfilePictureUrl(user_id, token, lookup, pics, flag, requests) ==
    IF ~TruthyStr(user_id) \/ user_id[1] \in pics
    THEN [pics |-> pics, flag |-> flag, requests |-> requests]
    ELSE LET r == GraphGet(token, flag, lookup)
         IN  [pics |-> pics \cup {user_id[1]}, flag |-> r.flag,
              requests |-> requests + (IF r.requested THEN 1 ELSE 0)]

\* a loop that returns the items without an id too
RECURSIVE LiveCommentsLoopAll(_, _, _, _, _, _, _, _)
LiveCommentsLoopAll(items, token, lookup, seen, pics, flag, requests, messages) ==
    IF items = <<>>
    THEN [seen |-> seen, pics |-> pics, flag |-> flag, requests |-> requests,
          raised |-> FALSE, messages |-> messages]
    ELSE LET item == Head(items)
         IN  IF item.id # None /\ item.id[1] \in seen
             THEN LiveCommentsLoopAll(Tail(items), token, lookup, seen, pics,
                                      flag, requests, messages)
             ELSE LET seen1 == IF item.id = None THEN seen
                               ELSE seen \cup {item.id[1]}
                      g == GetProfilePictureUrl(item.from_id, token, lookup,
                                                pics, flag, requests)
                  IN  LiveCommentsLoopAll(Tail(items), token, lookup, seen1,
                                          g.pics, g.flag, g.requests,
                                          Append(messages, item))

\* the loop of get_new_live_comments: an item without id or with an id in the
\* set is skipped; a new one is marked as seen, its created_time is parsed
\* (which may raise) and its author's picture is looked up with _get
RECURSIVE LiveCommentsLoop(_, _, _, _, _, _, _, _)
LiveCommentsLoop(items, token, lookup, seen, pics, flag, requests, messages) ==
    IF items = <<>>
    THEN [seen |-> seen, pics |-> pics, flag |-> flag, requests |-> requests,
          raised |-> FALSE, messages |-> messages]
    ELSE LET item == Head(items)
         IN  IF ~TruthyStr(item.id) \/ item.id[1] \in seen
             THEN LiveCommentsLoop(Tail(items), token, lookup, seen, pics,
                                   flag, requests, messages)
             ELSE IF ~item.ok
             THEN [seen |-> seen \cup {item.id[1]}, pics |-> pics,
                   flag |-> flag, requests |-> requests, raised |-> TRUE,
                   messages |-> <<>>]
             ELSE LET g == GetProfilePictureUrl(item.from_id, token, lookup,
                                                pics, flag, requests)
                  IN  LiveCommentsLoop(Tail(items), token, lookup,
                                       seen \cup {item.id[1]}, g.pics, g.flag,
                                       g.requests, Append(messages, item))

\* get_new_live_comments, for a live media id that is set
GetNewLiveComments(token, outcomes, lookup) ==
    LET e == GetEdgeVariant(token, outcomes)
        none == [seen |-> seen_comments, pics |-> profile_picture_cache,
                 flag |-> e.flag, requests |-> Requests(e.tried),
                 raised |-> FALSE, messages |-> <<>>]
        r == IF ~Truthy(e.ret) \/ e.ret[1].data = None THEN none
             ELSE LiveCommentsLoop(e.ret[1].data[1], token, lookup,
                                   seen_comments, profile_picture_cache,
                                   e.flag, Requests(e.tried), <<>>)
    IN  [tried |-> e.tried, loop |-> r]

\* what is left alone by the calls into youtube.py and instagram.py
BridgeUnchanged ==
    UNCHANGED <<queues, dedup, times, conn, host, pc, last, nextSerial, popped,
                cache, result, inserted>>

\* the items of the YouTube responses: an id and whether publishedAt parses
YoutubeItem(id, ok) == [id |-> id, ok |-> ok]
YoutubeResponses ==
    {<<>>,
     <<YoutubeItem("y1", TRUE)>>,
     <<YoutubeItem("y1", TRUE), YoutubeItem("y2", TRUE)>>,
     <<YoutubeItem("y2", TRUE), YoutubeItem("y2", TRUE)>>,
     <<YoutubeItem("y1", TRUE), YoutubeItem("y2", FALSE)>>}

\* handle_youtube_poll calls get_new_live_chat_messages
YoutubePoll ==
    \E response \in YoutubeResponses :
        LET r == GetNewLiveChatMessages(response)
        IN  /\ seen_messages' = r.seen
            /\ returned' = [returned EXCEPT !.youtube = @ \o r.messages]
            /\ UNCHANGED <<seen_comments, profile_picture_cache,
                           token_invalidated, call>>
            /\ BridgeUnchanged

\* the items of the Instagram responses: an id or none, the id of the author
\* or none, and whether created_time parses
InstagramItem(id, from_id, ok) == [id |-> id, from_id |-> from_id, ok |-> ok]
Doc(items) == [empty |-> FALSE, data |-> Some(items)]
NodeDoc == [empty |-> FALSE, data |-> None]
InstagramDocs ==
    {Doc(<<InstagramItem(Some("c1"), Some("u1"), TRUE)>>),
     Doc(<<InstagramItem(Some("c1"), Some("u1"), TRUE),
           InstagramItem(Some("c2"), None, TRUE)>>),
     Doc(<<InstagramItem(None, Some("u1"), TRUE),
           InstagramItem(Some("c2"), Some("u1"), TRUE),
           InstagramItem(Some("c2"), Some("u1"), TRUE)>>),
     Doc(<<InstagramItem(Some("c1"), Some("u1"), FALSE),
           InstagramItem(Some("c2"), Some("u1"), TRUE)>>),
     NodeDoc, EmptyDoc}

Tokens == {None, Some("YOUR_TOKEN"), Some("token")}
Failures == {HTTPError(Some(190)), HTTPError(Some(100)), HTTPError(None),
             RequestException}
EdgeOutcomes ==
    {<<o1, o2>> :
        o1 \in {Json(d) : d \in InstagramDocs}
                \cup {HTTPError(Some(190)), HTTPError(Some(100))},
        o2 \in {Json(Doc(<<InstagramItem(Some("c2"), Some("u1"), TRUE)>>)),
                HTTPError(Some(190))}}
Lookups == {Json(NodeDoc), HTTPError(Some(190))}

\* a host polls get_new_live_comments
InstagramPollWith(token, outcomes, lookup) ==
    LET g == GetNewLiveComments(token, outcomes, lookup)
        r == g.loop
    IN  /\ seen_comments' = r.seen
        /\ profile_picture_cache' = r.pics
        /\ token_invalidated' = r.flag
        /\ returned' = [returned EXCEPT !.instagram = @ \o r.messages]
        /\ call' = [op |-> "get_new_live_comments", tried |-> g.tried,
                    requests |-> r.requests,
                    ret |-> IF r.raised THEN None
                            ELSE Some([empty |-> r.messages = <<>>,
                                       data |-> Some(r.messages)])]
        /\ UNCHANGED seen_messages
        /\ BridgeUnchanged
InstagramPoll ==
    \E token \in Tokens, outcomes \in EdgeOutcomes, lookup \in Lookups :
        InstagramPollWith(token, outcomes, lookup)

\* the answers to the four field lists of get_live_media: the node, an empty
\* document, an error that invalidates the token or another error
FieldOutcomes ==
    LET node == Json(NodeDoc)
        empty == Json(EmptyDoc)
        expired == HTTPError(Some(190))
        failed == HTTPError(Some(100))
    IN  {<<node, node, node, node>>,
         <<failed, node, node, node>>,
         <<empty, failed, node, failed>>,
         <<failed, failed, failed, failed>>,
         <<empty, empty, empty, node>>,
         <<expired, node, node, node>>,
         <<failed, expired, node, node>>,
         <<failed, empty, failed, expired>>}

\* a host calls get_live_media, which calls _get_with_field_fallback
GetLiveMediaWith(token, outcomes) ==
    LET r == GetWithFieldFallback(token, outcomes)
    IN  /\ token_invalidated' = r.flag
        /\ call' = [op |-> "get_live_media", tried |-> r.tried,
                    requests |-> Requests(r.tried),
                    ret |-> IF Truthy(r.ret) THEN r.ret ELSE None]
        /\ UNCHANGED <<seen_messages, seen_comments, profile_picture_cache,
                       returned>>
        /\ BridgeUnchanged
GetLiveMedia ==
    \E token \in Tokens, outcomes \in FieldOutcomes :
        GetLiveMediaWith(token, outcomes)

\* a host calls get_instagram_user_from_page, which calls _get once
PageOutcomes == {Json(NodeDoc)} \cup Failures
GetInstagramUserFromPageWith(token, outcome) ==
    LET r == GraphGet(token, token_invalidated, outcome)
    IN  /\ token_invalidated' = r.flag
        /\ call' = [op |-> "get_instagram_user_from_page",
                    tried |-> <<[variant |-> 1, requested |-> r.requested]>>,
                    requests |-> IF r.requested THEN 1 ELSE 0,
                    ret |-> r.ret]
        /\ UNCHANGED <<seen_messages, seen_comments, profile_picture_cache,
                       returned>>
        /\ BridgeUnchanged
GetInstagramUserFromPage ==
    \E token \in Tokens, outcome \in PageOutcomes :
        GetInstagramUserFromPageWith(token, outcome)

\* the polls of the two chats
NextFeeds == YoutubePoll \/ InstagramPoll

\* the calls into instagram.py
NextGraph == InstagramPoll \/ GetLiveMedia \/ GetInstagramUserFromPage

-----------------------------------------------------------------------------
(* Specifications.                                                         *)

\* the module level of youtube.py and of instagram.py
InitFeeds ==
    /\ seen_messages = {}
    /\ seen_comments = {}
    /\ profile_picture_cache = {}
    /\ token_invalidated = FALSE
    /\ returned = [youtube |-> <<>>, instagram |-> <<>>]
    /\ call = [op |-> "none", tried |-> <<>>, requests |-> 0, ret |-> None]

\* TikTokChatBridge.__init__ and the module level of main.py, youtube.py and
\* instagram.py
InitBridge(autos, subs) ==
    /\ tnt_queue = <<>>
    /\ tnt_superchat_queue = <<>>
    /\ fast_slow_queue = <<>>
    /\ big_queue = <<>>
    /\ pickaxe_queue = <<>>
    /\ mega_tnt_queue = <<>>
    /\ seen_comment_ids = SeenCache(BridgeCacheLen)
    /\ seen_gift_ids = SeenCache(BridgeCacheLen)
    /\ seen_like_ids = SeenCache(BridgeCacheLen)
    /\ like_counters = <<>>
    /\ liked = <<>>
    /\ last_comment_time = FALSE
    /\ last_gift_time = FALSE
    /\ client = [id |-> 0, connected |-> FALSE, handlers |-> TRUE]
    /\ loop = FALSE
    /\ futures = [cur |-> 0, old |-> 0]
    /\ health_task = FALSE
    /\ restart_pending = FALSE
    /\ auto_reconnect \in autos
    /\ backoff_attempts = 0
    /\ timers = <<>>
    /\ delays = <<>>
    /\ subscribers \in subs
    /\ pc = "idle"
    /\ last = [op |-> "init", outcome |-> "constructed"]
    /\ nextSerial = 1
    /\ popped = {}
    /\ InitFeeds

\* _SeenCache.__init__
InitCache(lens) ==
    /\ cache \in {SeenCache(n) : n \in lens}
    /\ result = None
    /\ inserted = <<>>

\* the unique_id the bridge is constructed with
InitId(ids) == unique_id \in ids

Init == InitBridge({FALSE}, {Some(0)}) /\ InitCache({MaxLen}) /\ InitId({"streamer"})

\* the SDK delivers an event to its handler; max bounds the dicts appended
Comment(max) ==
    \E e \in CommentEvents : HandleComment(e) /\ nextSerial' <= max + 1
Giving(max) ==
    \E e \in GiftEvents : HandleGift(e) /\ nextSerial' <= max + 1
Like(max) ==
    \E e \in LikeEvents : HandleLike(e) /\ nextSerial' <= max + 1

\* the game loop schedules a poll
Youtube(max) ==
    \E n \in {None, Some(MaxSubscribers)}, m \in Polls :
        HandleYoutubePoll(n, m) /\ nextSerial' <= max + 1

\* the producers of the queues on the event-loop thread and the consumer on
\* the main thread, interleaved
Next ==
    \/ Comment(MaxRequests)
    \/ Giving(MaxRequests)
    \/ Youtube(MaxRequests)
    \/ Consumer

Spec == Init /\ [][Next]_vars

\* the bridge's handlers alone
NextDedup ==
    \/ Comment(MaxDedupRequests)
    \/ Giving(MaxDedupRequests)
    \/ Like(MaxDedupRequests)

SpecDedup == Init /\ [][NextDedup]_vars

\* the host calls start
Starting == futures.cur + futures.old <= MaxFutures /\ Start

\* the SDK connects a client
Connecting == \E w \in {"cur", "old"} : Connect(w)

\* a connect future completes
Finishing ==
    \E w \in {"cur", "old"}, o \in Outcomes :
        /\ client.id < MaxResets
        /\ OnFutureDone(w, o)

\* a restart timer expires
Restarting == DoRestart

\* the host, the SDK and the timers drive the client lifecycle
Lifecycle == Starting \/ Connecting \/ Finishing \/ Restarting \/ LogHealth

InitLifecycle ==
    InitBridge(BOOLEAN, {None}) /\ InitCache({MaxLen}) /\ InitId({"streamer"})

\* the event loop runs every call_later callback that is due
SpecLifecycle == InitLifecycle /\ [][Lifecycle]_vars /\ WF_vars(Restarting)

\* dicts appended and clients replaced in one behaviour of SpecFrame
MaxFrame == 1
MaxFrameResets == 1

\* one comment, one gift and one like, each of which appends one dict
FrameComment ==
    /\ HandleComment(CommentEvent(Some("m1"), None, Ann, Some("tnt")))
    /\ nextSerial' <= MaxFrame + 1
FrameGift ==
    /\ HandleGift(GiftEvent(Some("g1"), None, Ann, Gift(None, Some("Rose"), Some(1)),
                            None))
    /\ nextSerial' <= MaxFrame + 1
FrameLike ==
    /\ HandleLike(LikeEvent(Some("k1"), None, Bob, Some(7)))
    /\ nextSerial' <= MaxFrame + 1

\* a connect future completes with a sign error or with the end of the
\* stream, on the first clients only
FrameOutcomes == {"SignAPIError", "returned"}
FrameFinishing ==
    \E w \in {"cur", "old"}, o \in FrameOutcomes :
        /\ client.id < MaxFrameResets
        /\ OnFutureDone(w, o)

\* the consumer where only the TNT queue and the MegaTNT queue fill
FrameConsumer ==
    \/ ConsumerTick
    \/ TestTnt \/ PopTnt
    \/ TestMega \/ PopMega
    \/ TestSuperchat
    \/ TestFastSlow
    \/ TestBig
    \/ TestPickaxe

NextFrame ==
    \/ FrameComment \/ FrameGift \/ FrameLike
    \/ FrameConsumer
    \/ Starting \/ Connecting \/ FrameFinishing \/ Restarting
    \/ LogHealth

InitFrame ==
    InitBridge({TRUE}, {Some(0)}) /\ InitCache({MaxLen}) /\ InitId({"streamer"})

\* the handlers, the consumer, the client lifecycle and the health report
\* together
SpecFrame == InitFrame /\ [][NextFrame]_vars

\* the events of two sessions: the first client delivers a comment, a gift
\* and a like of 7; the client that replaces it replays those of them that
\* the bridge has seen and delivers a like of 3 from the same author
FirstSession ==
    {CommentEvent(Some("m1"), None, Ann, Some("tnt")),
     GiftEvent(Some("g1"), None, Ann, Gift(None, Some("Rose"), Some(1)), None),
     LikeEvent(Some("k1"), None, Ann, Some(7))}
SeenCacheOf(e) ==
    CASE e.typ = "comment" -> seen_comment_ids
      [] e.typ = "gift" -> seen_gift_ids
      [] OTHER -> seen_like_ids
NextSession ==
    {e \in FirstSession : EventKey(e)[1] \in SeenCacheOf(e).index}
    \cup {LikeEvent(Some("k2"), None, Ann, Some(3))}
SessionEvents == IF client.id = 0 THEN FirstSession ELSE NextSession

SessionComment == \E e \in SessionEvents : e.typ = "comment" /\ HandleComment(e)
SessionGift == \E e \in SessionEvents : e.typ = "gift" /\ HandleGift(e)
SessionLike == \E e \in SessionEvents : e.typ = "like" /\ HandleLike(e)

NextSessions ==
    \/ SessionComment \/ SessionGift \/ SessionLike
    \/ Starting \/ Connecting \/ FrameFinishing \/ Restarting
    \/ FrameConsumer

\* the handlers, the client lifecycle and the consumer, over two sessions
SpecSessions == InitFrame /\ [][NextSessions]_vars

\* _schedule_restart is called on a bridge that has not been started
RestartRequestBeforeStart ==
    /\ ~loop
    /\ LET r == ScheduleRestart(FlatSeconds)
       IN  restart_pending' = r.pending /\ timers' = r.timers
    /\ last' = [op |-> "schedule_restart", outcome |-> "called"]
    /\ UNCHANGED <<client, loop, futures, health_task, auto_reconnect,
                   backoff_attempts, delays, unique_id>>
    /\ UNCHANGED <<queues, dedup, times, host, pc, standalone, nextSerial, popped>>

\* the body of _do_restart runs on a bridge that has not been started
TimerBeforeStart ==
    /\ ~loop
    /\ restart_pending' = FALSE
    /\ futures' = StartClient(loop, client, futures)
    /\ last' = [op |-> "do_restart", outcome |-> "called"]
    /\ UNCHANGED <<client, loop, health_task, auto_reconnect, backoff_attempts,
                   timers, delays, unique_id>>
    /\ UNCHANGED <<queues, dedup, times, host, pc, standalone, nextSerial, popped>>

NextStartup == RestartRequestBeforeStart \/ TimerBeforeStart \/ Lifecycle

\* the client lifecycle with restart requests that come before start()
SpecStartup == InitLifecycle /\ [][NextStartup]_vars

\* comments with keywords in both cases, with and without message id
ChatTexts == {"TNT fast", "my megaTNT", "slow FAST"}
ChatEvents ==
    {CommentEvent(None, None, Ann, Some(text)) : text \in {"TNT fast", "my megaTNT"}}
    \cup {CommentEvent(Some("m1"), None, Ann, Some("slow FAST")),
          CommentEvent(None, None, Bob, Some("TNT fast"))}

\* dicts appended by the comments of one behaviour
MaxChat == 6

\* the SDK delivers a comment; the handler runs between two consumer steps
Chat == \E e \in ChatEvents : HandleComment(e) /\ nextSerial' <= MaxChat + 1

\* the SDK delivers a comment; the consumer pops during a scan of the handler
ChatRace ==
    \E e \in ChatEvents, site \in Sites, j \in 2..MaxChat :
        RaceComment(e, site, j) /\ nextSerial' <= MaxChat + 1

\* the consumer where the superchat, big and pickaxe queues stay empty
ChatConsumer ==
    \/ ConsumerTick
    \/ TestTnt \/ PopTnt
    \/ TestMega \/ PopMega
    \/ TestSuperchat
    \/ TestFastSlow \/ PopFastSlow
    \/ TestBig
    \/ TestPickaxe

NextChat == Chat \/ ChatRace \/ ChatConsumer

\* the comment handler on the event-loop thread and the consumer on the main
\* thread, interleaved
SpecChat == Init /\ [][NextChat]_vars

\* comments that name pickaxe tiers, with and without message id
PickaxeTexts == {"Gold wood", "netherite IRON"}
PickaxeEvents ==
    {CommentEvent(None, None, Ann, Some(text)) : text \in PickaxeTexts}
    \cup {CommentEvent(Some("m1"), None, Ann, Some("Gold wood")),
          CommentEvent(None, None, Bob, Some("Gold wood"))}

PickaxeChat ==
    \E e \in PickaxeEvents : HandleComment(e) /\ nextSerial' <= MaxChat + 1

PickaxeRace ==
    \E e \in PickaxeEvents, site \in Sites, j \in 2..MaxChat :
        RaceComment(e, site, j) /\ nextSerial' <= MaxChat + 1

\* the consumer where only the tnt queue and the pickaxe queue fill
PickaxeConsumer ==
    \/ ConsumerTick
    \/ TestTnt \/ PopTnt
    \/ TestMega
    \/ TestSuperchat
    \/ TestFastSlow
    \/ TestBig
    \/ TestPickaxe \/ PopPickaxe

NextPickaxe == PickaxeChat \/ PickaxeRace \/ PickaxeConsumer

SpecPickaxe == Init /\ [][NextPickaxe]_vars

\* comments without message id, with and without a create_time, of two
\* authors, and one with a message id
KeyEvents ==
    {CommentEvent(None, Some(5), Ann, Some("tnt")),
     CommentEvent(None, Some(5), Bob, Some("gold")),
     CommentEvent(None, None, Ann, Some("tnt")),
     CommentEvent(None, None, Bob, Some("tnt")),
     CommentEvent(Some("m1"), Some(5), Ann, Some("big"))}

\* dicts appended by the comments of one behaviour
MaxKeyed == 4

\* the SDK delivers a comment
KeyChat ==
    \E e \in KeyEvents : HandleComment(e) /\ nextSerial' <= MaxKeyed + 1

NextKeys == KeyChat

\* the comment handler alone: the TNT queue keeps every comment classified
SpecKeys == Init /\ [][NextKeys]_vars

\* the comment of the classifier example, from the author with user id 7,
\* without and with a message id, a comment of another author and a comment
\* without any keyword
ExampleText == "please drop tnt and go fast"
PlainText == "Hello there"
ExampleEvents ==
    {CommentEvent(None, None, Ann, Some(ExampleText)),
     CommentEvent(Some("m1"), None, Ann, Some(ExampleText)),
     CommentEvent(None, None, Bob, Some("Go FAST")),
     CommentEvent(Some("m2"), None, Ann, Some(PlainText))}

ExampleChat ==
    \E e \in ExampleEvents : HandleComment(e) /\ nextSerial' <= MaxChat + 1

ExampleRace ==
    \E e \in ExampleEvents, site \in Sites, j \in 2..MaxChat :
        RaceComment(e, site, j) /\ nextSerial' <= MaxChat + 1

\* the consumer where only the tnt queue and the fast/slow queue fill
ExampleConsumer ==
    \/ ConsumerTick
    \/ TestTnt \/ PopTnt
    \/ TestMega
    \/ TestSuperchat
    \/ TestFastSlow \/ PopFastSlow
    \/ TestBig
    \/ TestPickaxe

NextExample == ExampleChat \/ ExampleRace \/ ExampleConsumer

SpecExample == Init /\ [][NextExample]_vars

\* likes of one author that sum to a bundle and a rest, one of them with an
\* identifier, a like that fills a bundle alone, and a like without a count
LikeTestEvents ==
    {LikeEvent(None, None, Ann, Some(2)),
     LikeEvent(Some("k1"), None, Ann, Some(2)),
     LikeEvent(None, None, Ann, Some(11)),
     LikeEvent(None, None, Bob, None)}

\* dicts appended by the likes of one behaviour
MaxLike == 3

\* the SDK delivers a like
Liking ==
    \E e \in LikeTestEvents : HandleLike(e) /\ nextSerial' <= MaxLike + 1

\* the consumer where only the MegaTNT queue fills
LikeConsumer ==
    \/ ConsumerTick
    \/ TestTnt
    \/ TestMega \/ PopMega
    \/ TestSuperchat
    \/ TestFastSlow
    \/ TestBig
    \/ TestPickaxe

NextLike == Liking \/ LikeConsumer

\* the like handler on the event-loop thread and the consumer on the main
\* thread, interleaved
SpecLike == Init /\ [][NextLike]_vars

\* gifts on both sides of every coin threshold, single and repeated, each
\* with its own message id, and a gift event without gift data
GiftCoins == {None, Some(0), Some(1), Some(2), Some(50), Some(51)}
GiftRepeats == {None, Some(3)}
GiftTestEvents ==
    {GiftEvent(Some("g" \o FmtInt(c) \o "x" \o FmtInt(r)), None, Ann,
               Gift(None, Some("Rose"), c), r) :
        c \in GiftCoins, r \in GiftRepeats}
    \cup {GiftEvent(None, None, Bob, None, Some(3))}

\* dicts appended by the gifts of one behaviour
MaxGift == 3

\* the SDK delivers a gift
GiftGiving ==
    \E e \in GiftTestEvents : HandleGift(e) /\ nextSerial' <= MaxGift + 1

NextGift == GiftGiving

\* the gift handler alone
SpecGift == Init /\ [][NextGift]_vars

\* account identifiers of the configuration: placeholders and a name
UniqueIds == {"YOUR_TIKTOK_ID", " your_name", "streamer "}

\* start_tiktok_bridge(unique_id, ...): the bridge is constructed and started
StartTiktokBridge == ~loop /\ Start

NextConfig == StartTiktokBridge \/ Lifecycle

InitConfig ==
    InitBridge(BOOLEAN, {None}) /\ InitCache({MaxLen}) /\ InitId(UniqueIds)

\* the host starts a bridge for the identifier of its configuration
SpecConfig == InitConfig /\ [][NextConfig]_vars

\* add calls on the stand-alone cache
NextCache == \E k \in Keys : Len(inserted) < MaxLen + 2 /\ Add(k)

InitStandalone ==
    InitBridge({FALSE}, {None}) /\ InitCache(0..MaxLen) /\ InitId({"streamer"})

SpecCache == InitStandalone /\ [][NextCache]_vars

\* the chat polls of youtube.py and instagram.py
SpecFeeds == Init /\ [][NextFeeds]_vars

\* the Graph API calls of instagram.py
SpecGraph == Init /\ [][NextGraph]_vars

-----------------------------------------------------------------------------
(* Properties of _SeenCache, under SpecCache.                              *)

NoDuplicates(s) == \A i, j \in 1..Len(s) : i # j => s[i] # s[j]

\* the last n elements of s
Suffix(s, n) == SubSeq(s, Len(s) - n + 1, Len(s))

\* C2: add(key) returns true iff key was not resident before the call, and
\* then (for a capacity of at least 1) key is resident; it returns false iff
\* key was resident, and then the resident keys and their order are unchanged;
\* so an add(k) that follows an add(k) that returned true returns false.
C2_AddContract ==
    [][\A k \in Keys :
          Add(k) =>
            /\ result'.ret = (k \notin Range(cache.items))
            /\ (result'.ret /\ cache.maxlen >= 1) => k \in Range(cache'.items)
            /\ ~result'.ret => /\ k \in Range(cache.items)
                               /\ cache'.items = cache.items
                               /\ cache'.index = cache.index
            /\ (/\ result # None
                /\ result.key = k
                /\ result.ret
                /\ cache.maxlen >= 1) => ~result'.ret]_vars

\* add(k) has returned false right after an add(k) that returned true
C2_Witness ==
    /\ result # None
    /\ ~result.ret
    /\ cache.maxlen >= 1
    /\ inserted # <<>>
    /\ inserted[Len(inserted)] = result.key

\* C3: a cache of capacity N holds at most N keys, no key twice, and its
\* membership index is exactly the set of the keys in its sequence.
C3_CacheInvariant ==
    /\ Len(cache.items) <= cache.maxlen
    /\ NoDuplicates(cache.items)
    /\ cache.index = Range(cache.items)

\* a full cache of the largest capacity after an eviction and a repeated add
C3_Witness ==
    /\ cache.maxlen = MaxLen
    /\ Len(cache.items) = MaxLen
    /\ Len(inserted) > MaxLen
    /\ result # None
    /\ ~result.ret

\* C4: after the insertion of N+k distinct keys into an empty cache of
\* capacity N, exactly N keys are resident, the N inserted last; an insert
\* that overflows the capacity evicts exactly one key, the oldest, and no
\* other call removes a key.
C4_BoundedEviction ==
    /\ [](/\ cache.items = Suffix(inserted, Min(cache.maxlen, Len(inserted)))
          /\ (NoDuplicates(inserted) /\ Len(inserted) >= cache.maxlen)
                => Cardinality(cache.index) = cache.maxlen)
    /\ [][\A k \in Keys :
            Add(k) =>
              LET overflow == result'.ret /\ Len(cache.items) + 1 > cache.maxlen
                  oldest == Append(cache.items, k)[1]
                  gone == (cache.index \cup {k}) \ cache'.index
              IN  gone = IF overflow THEN {oldest} ELSE {}]_vars

\* N+2 distinct keys have been inserted into the cache of the largest capacity
C4_Witness ==
    /\ cache.maxlen = MaxLen
    /\ Len(inserted) = MaxLen + 2
    /\ NoDuplicates(inserted)
    /\ Cardinality(cache.index) = MaxLen

-----------------------------------------------------------------------------
(* Properties of the handlers, under SpecDedup.                            *)

\* key is a resolved key that the cache holds
Resident(seen, key) == key # None /\ key[1] \in seen.index

\* C1: the delivery of a comment, gift or like event whose dedup key resolves
\* and is resident in the cache of its kind leaves every queue and the like
\* counters unchanged.
C1_DuplicateSuppressed ==
    [][/\ \A e \in CommentEvents :
            (HandleComment(e) /\ Resident(seen_comment_ids, EventKey(e)))
                => UNCHANGED <<queues, like_counters, nextSerial>>
       /\ \A e \in GiftEvents :
            (HandleGift(e) /\ Resident(seen_gift_ids, EventKey(e)))
                => UNCHANGED <<queues, like_counters, nextSerial>>
       /\ \A e \in LikeEvents :
            (HandleLike(e) /\ Resident(seen_like_ids, EventKey(e)))
                => UNCHANGED <<queues, like_counters, nextSerial>>]_vars

\* a comment was delivered again while the one request of its first delivery
\* was queued
C1_Witness ==
    /\ last = [op |-> "comment", outcome |-> "duplicate"]
    /\ Len(tnt_queue) = 1
    /\ nextSerial = 2

\* C5: when the key resolver returns the absent key for an event, its handler
\* leaves the cache of its kind unchanged and classifies the event: a comment
\* appends to the TNT queue, a gift appends a request, a like is added to the
\* like counters or appends a bundle.
C5_FailOpen ==
    [][/\ \A e \in CommentEvents :
            (HandleComment(e) /\ EventKey(e) = None)
                => /\ seen_comment_ids' = seen_comment_ids
                   /\ Len(tnt_queue') = Len(tnt_queue) + 1
       /\ \A e \in GiftEvents :
            (HandleGift(e) /\ EventKey(e) = None)
                => /\ seen_gift_ids' = seen_gift_ids
                   /\ nextSerial' > nextSerial
       /\ \A e \in LikeEvents :
            (HandleLike(e) /\ EventKey(e) = None)
                => /\ seen_like_ids' = seen_like_ids
                   /\ like_counters' # like_counters \/ nextSerial' > nextSerial
      ]_vars

\* a like without key was handled twice: 7 + 7 likes are two bundles and 4 left
C5_Witness ==
    /\ last = [op |-> "like", outcome |-> "nokey"]
    /\ seen_like_ids.index = {}
    /\ "7" \in DOMAIN like_counters
    /\ like_counters["7"] = 4
    /\ Len(mega_tnt_queue) = 2

-----------------------------------------------------------------------------
(* Properties of the queues and their consumer, under Spec.                *)

\* the positions of the entries with priority "gift"
GiftPositions(q) == {i \in 1..Len(q) : Get(q[i], "priority") = Some("gift")}

\* q without its element at position i
Without(q, i) == SubSeq(q, 1, i - 1) \o SubSeq(q, i + 1, Len(q))

\* a pop that serves the earliest entry of priority gift when there is one
ServesGiftFirst(q, after) ==
    GiftPositions(q) # {} =>
        LET i == CHOOSE i \in GiftPositions(q) : \A j \in GiftPositions(q) : i <= j
        IN  after = Without(q, i)

\* C6: when a queue holds an entry with priority gift, the consumer's next pop
\* on it removes the earliest such entry and leaves the other entries in
\* their order.
C6_GiftPriorityPop ==
    [][/\ PopTnt => ServesGiftFirst(tnt_queue, tnt_queue')
       /\ PopMega => ServesGiftFirst(mega_tnt_queue, mega_tnt_queue')]_vars

\* the entries dequeued in this step
Dequeued == popped' \ popped

\* the six queues, by the names the consumer uses
QueueOf(name) ==
    CASE name = "tnt" -> tnt_queue [] name = "mega" -> mega_tnt_queue
      [] name = "superchat" -> tnt_superchat_queue
      [] name = "fast_slow" -> fast_slow_queue [] name = "big" -> big_queue
      [] name = "pickaxe" -> pickaxe_queue

QueueNames == {"tnt", "mega", "superchat", "fast_slow", "big", "pickaxe"}

\* the serials along a queue
Serials(q) == [i \in 1..Len(q) |-> q[i].serial]

Increasing(s) == \A i, j \in 1..Len(s) : i < j => s[i] < s[j]

\* C7: within one queue, entries of the same priority are dequeued in the
\* order of their appends: every queue holds its entries in the order of
\* their appends, and an entry that is dequeued was appended before every
\* entry of its priority that stays in its queue.
C7_FifoSamePriority ==
    /\ [](\A n \in QueueNames : Increasing(Serials(QueueOf(n))))
    /\ [][\A p \in Dequeued :
            \A i \in 1..Len(QueueOf(p.queue)) :
                LET e == QueueOf(p.queue)[i]
                IN  (e.serial # p.entry.serial
                     /\ Get(e, "priority") = Get(p.entry, "priority"))
                        => p.entry.serial < e.serial]_vars

\* an entry of the TNT queue was dequeued while an entry of its priority,
\* appended later, stays queued
C7_Witness ==
    \E p \in popped :
        /\ p.queue = "tnt"
        /\ \E i \in 1..Len(tnt_queue) :
               /\ Get(tnt_queue[i], "priority") = Get(p.entry, "priority")
               /\ p.entry.serial < tnt_queue[i].serial

\* the serials of the dicts in the queues, queue by queue
AllQueued ==
    Serials(tnt_queue) \o Serials(mega_tnt_queue) \o Serials(tnt_superchat_queue)
    \o Serials(fast_slow_queue) \o Serials(big_queue) \o Serials(pickaxe_queue)

\* C8: under every interleaving of the handlers and the consumer, a request
\* appended to a queue is in exactly one queue, once, until the consumer
\* dequeues it, and is in no queue afterwards: none is lost, none is delivered
\* twice.
C8_NoLossNoDuplicate ==
    /\ NoDuplicates(AllQueued)
    /\ Range(AllQueued) \cap {p.entry.serial : p \in popped} = {}
    /\ Range(AllQueued) \cup {p.entry.serial : p \in popped} = 1..(nextSerial - 1)
    /\ \A p, r \in popped : p.entry.serial = r.entry.serial => p = r
    /\ pc # "IndexError"

\* all requests of the behaviour were appended, some are dequeued, some queued,
\* and the consumer is between a test and its pop
C8_Witness ==
    /\ nextSerial = MaxRequests + 1
    /\ popped # {}
    /\ AllQueued # <<>>
    /\ pc = "mega_pop"
    /\ pc = "mega_pop"

-----------------------------------------------------------------------------
(* Properties of the client lifecycle, under SpecLifecycle.                *)

\* a connect future of the current client is outstanding
Attempting == futures.cur > 0

\* a connect future has just completed: a terminal failure or a stream end
Stopped == last.op = "done"

\* C9 as stated: after every terminal failure and every stream end, a new
\* connect attempt is eventually issued.
C9_AlwaysRetries == Stopped ~> Attempting

\* C9, amended: when the bridge was constructed with auto_reconnect enabled,
\* after every terminal failure and every stream end a new connect attempt is
\* eventually issued.
C9_RetriesWhenEnabled == (auto_reconnect /\ Stopped) ~> Attempting

\* the restart timer of a bridge with auto_reconnect has expired after a
\* failure and has issued a connect on the new client
C9_Witness ==
    /\ auto_reconnect
    /\ last.op = "timer"
    /\ client.id >= 1
    /\ Attempting

\* the delay of the i-th consecutive sign error
ExpectedDelay(i) == IF i <= 4 THEN <<5, 10, 20, 40>>[i] ELSE 60

\* C10: the sign errors since the last successful connect got the delays
\* 5, 10, 20, 40, 60, 60, ... from _next_backoff_delay, the backoff counter
\* counts them, and a successful connect sets the counter to 0, so that the
\* sign error after it gets the delay 5; a restart timer waits 15 seconds or
\* one of these delays.
C10_BackoffDelays ==
    /\ \A i \in 1..Len(delays) : delays[i] = ExpectedDelay(i)
    /\ backoff_attempts = Len(delays)
    /\ last.op = "connect" => backoff_attempts = 0
    /\ \A i \in 1..Len(timers) :
           timers[i] = FlatSeconds \/ \E k \in 1..MaxResets : timers[i] = ExpectedDelay(k)

\* six sign errors in a row
C10_Witness == delays = <<5, 10, 20, 40, 60, 60>>

\* the future of the current or of a replaced client
Which == {"cur", "old"}

\* C11: an offline, already-connected or generic failure and a stream end
\* leave the backoff counter unchanged and set no other restart timer than
\* one of 15 seconds, which they set when auto_reconnect is on and no restart
\* is pending; a sign error adds one to the counter, and nothing else does.
C11_FlatDelay ==
    [][/\ \A w \in Which : \A o \in Outcomes \ {"SignAPIError"} :
            OnFutureDone(w, o) =>
                /\ backoff_attempts' = backoff_attempts
                /\ timers' \in {timers, Append(timers, FlatSeconds)}
                /\ (auto_reconnect /\ ~restart_pending)
                       => timers' = Append(timers, FlatSeconds)
       /\ \A w \in Which :
            OnFutureDone(w, "SignAPIError")
                => backoff_attempts' = backoff_attempts + 1
       /\ backoff_attempts' > backoff_attempts
            => \E w \in Which : OnFutureDone(w, "SignAPIError")]_vars

\* after a sign error and its restart, an offline failure has set a timer of
\* 15 seconds and the counter is still 1
C11_Witness ==
    /\ last = [op |-> "done", outcome |-> "UserOfflineError"]
    /\ backoff_attempts = 1
    /\ timers = <<FlatSeconds>>

\* C12: at most one restart timer is pending, _restart_pending tells whether
\* one is, and a failure or stream end that arrives while one is pending sets
\* no second timer.
C12_OneTimer ==
    /\ [](/\ Len(timers) <= 1
          /\ restart_pending <=> timers # <<>>)
    /\ [][\A w \in Which : \A o \in Outcomes :
            (OnFutureDone(w, o) /\ restart_pending) => timers' = timers]_vars

\* a second sign error arrived while the timer of the first was pending: the
\* timer of 5 seconds is the only one
C12_Witness ==
    /\ last = [op |-> "done", outcome |-> "SignAPIError"]
    /\ delays = <<5, 10>>
    /\ timers = <<5>>
    /\ restart_pending

\* C13: every outcome of a connect future replaces the current client by a
\* new one, not connected, with the handlers registered and with no connect
\* issued on it, whatever restart is scheduled; the current client changes
\* in no other step, and the connects that start and the restart timer issue
\* are on the current client, which has its handlers.
C13_ClientReplaced ==
    /\ [](client.handlers)
    /\ [][/\ \A w \in Which : \A o \in Outcomes :
               OnFutureDone(w, o) =>
                   /\ client'.id = client.id + 1
                   /\ ~client'.connected
                   /\ client'.handlers
                   /\ futures'.cur = 0
                   /\ futures'.old = futures.cur + futures.old - 1
          /\ client'.id # client.id
               => \E w \in Which : \E o \in Outcomes : OnFutureDone(w, o)
          /\ (Start \/ DoRestart) => client' = client]_vars

\* two clients were replaced, and the restart timer has issued a connect on
\* the third, which is current
C13_Witness ==
    /\ client.id = 2
    /\ ~client.connected
    /\ futures.cur = 1
    /\ last.op = "timer"

-----------------------------------------------------------------------------
(* Properties of the configuration, under SpecConfig.                      *)

\* C15: when is_configured is false of the account identifier, no connect is
\* ever issued, the bridge is not started and no restart timer is set.
C15_NeverStartsUnconfigured ==
    ~IsConfigured(Some(unique_id)) =>
        /\ ~loop
        /\ futures = [cur |-> 0, old |-> 0]
        /\ timers = <<>>

-----------------------------------------------------------------------------
(* Properties of the comment handler, under SpecChat.                      *)

\* the delivery of e is not a duplicate
Fresh(e) == ~Resident(seen_comment_ids, EventKey(e))

\* _handle_comment runs for e in this step, with or without a pop during it
Delivered(e) ==
    \/ HandleComment(e)
    \/ \E site \in Sites, j \in 2..MaxChat : RaceComment(e, site, j)

\* q grew by one entry at its tail
Grown(q, after) ==
    Len(after) = Len(q) + 1 /\ SubSeq(after, 1, Len(q)) = q

\* the comments with "tnt" and with "megatnt", in either case of the letters
TntTexts == {"TNT fast", "my megaTNT"}
MegaTexts == {"my megaTNT"}

\* C16: a comment that is not a duplicate and whose text holds "tnt", in
\* either case, appends exactly one request to the TNT queue, which carries
\* the author id of the comment and the highlight "tnt".
C16_TntRequest ==
    [][\A e \in ChatEvents :
          (Delivered(e) /\ Fresh(e) /\ e.comment[1] \in TntTexts) =>
              /\ Grown(tnt_queue, tnt_queue')
              /\ tnt_queue'[Len(tnt_queue')].author_id = AuthorId(e)
              /\ tnt_queue'[Len(tnt_queue')].highlight = Some("tnt")]_vars

\* Bob's comment "TNT fast" is queued with the highlight "tnt"
C16_Witness ==
    \E i \in 1..Len(tnt_queue) :
        /\ tnt_queue[i].message = "TNT fast"
        /\ tnt_queue[i].author_id = "bob"
        /\ tnt_queue[i].highlight = Some("tnt")

\* C17: a comment that is not a duplicate and whose text holds "megatnt", in
\* either case, appends one request to the TNT queue and exactly one to the
\* MegaTNT queue, with the highlight "megatnt"; a comment without "megatnt"
\* leaves the MegaTNT queue as it is.
C17_MegaTntRequest ==
    [][\A e \in ChatEvents :
          (Delivered(e) /\ Fresh(e)) =>
              IF e.comment[1] \in MegaTexts
              THEN /\ Grown(tnt_queue, tnt_queue')
                   /\ Grown(mega_tnt_queue, mega_tnt_queue')
                   /\ mega_tnt_queue'[Len(mega_tnt_queue')].author_id = AuthorId(e)
                   /\ mega_tnt_queue'[Len(mega_tnt_queue')].highlight
                          = Some("megatnt")
              ELSE mega_tnt_queue' = mega_tnt_queue]_vars

\* a comment with "my megaTNT" has a request in both queues, and a comment
\* without it has one in the TNT queue only
C17_Witness ==
    /\ Len(mega_tnt_queue) = 1
    /\ mega_tnt_queue[1].highlight = Some("megatnt")
    /\ Len(tnt_queue) = 2
    /\ \E i \in 1..2 : tnt_queue[i].serial = mega_tnt_queue[1].serial - 1
    /\ \E i \in 1..2 : tnt_queue[i].message = "TNT fast"

-----------------------------------------------------------------------------
(* Per-author gating of the comment handler, under SpecChat and            *)
(* SpecPickaxe.                                                            *)

\* the entries that a step added to a queue
Enqueued(q, after) == Range(after) \ Range(q)

\* the author of e has an entry in q
Pending(q, e) == Some(AuthorId(e)) \in AuthorIds(q)

\* the text of e, in lower case
TextLower(e) == Lower(OrStr(e.comment, Some(""))[1])

\* C18: a "fast" comment of an author who has an entry in the FastSlow queue
\* adds no entry to it, so two consecutive ones add exactly one; a "fast"
\* comment that is not a duplicate, of an author who has no entry in the
\* queue (the consumer has dequeued it), adds a new entry for that author.
C18_FastGating ==
    [][\A e \in ChatEvents :
          (Delivered(e) /\ Fresh(e) /\ Contains(TextLower(e), "fast")) =>
              IF Pending(fast_slow_queue, e)
              THEN Enqueued(fast_slow_queue, fast_slow_queue') = {}
              ELSE \E entry \in Range(fast_slow_queue') :
                      /\ Enqueued(fast_slow_queue, fast_slow_queue') = {entry}
                      /\ entry.author_id = AuthorId(e)]_vars

\* C19: a comment with both "fast" and "slow" that is not a duplicate adds
\* exactly one entry, with the choice "Fast", to the FastSlow queue when its
\* author has no entry there, and no entry when the author has one.
C19_FastBeforeSlow ==
    [][\A e \in ChatEvents :
          (/\ Delivered(e) /\ Fresh(e)
           /\ Contains(TextLower(e), "fast")
           /\ Contains(TextLower(e), "slow")) =>
              IF Pending(fast_slow_queue, e)
              THEN Enqueued(fast_slow_queue, fast_slow_queue') = {}
              ELSE \E entry \in Range(fast_slow_queue') :
                      /\ Enqueued(fast_slow_queue, fast_slow_queue') = {entry}
                      /\ entry.author_id = AuthorId(e)
                      /\ entry.choice = "Fast"]_vars

\* the first keyword of the fixed order that occurs in the text of e
FirstKeyword(e) ==
    LET found == {i \in 1..Len(PickaxeKeys) :
                     Contains(TextLower(e), PickaxeKeys[i])}
    IN  PickaxeKeys[CHOOSE i \in found : \A j \in found : i <= j]

\* C20: a comment that is not a duplicate and names pickaxe tiers adds
\* exactly one entry to the PickaxeChange queue, for the first keyword of the
\* order wood, stone, iron, gold, diamond, netherite that its text holds,
\* when its author has no entry there, and no entry when the author has one.
C20_PickaxeGating ==
    [][\A e \in PickaxeEvents :
          (Delivered(e) /\ Fresh(e)) =>
              IF Pending(pickaxe_queue, e)
              THEN Enqueued(pickaxe_queue, pickaxe_queue') = {}
              ELSE \E entry \in Range(pickaxe_queue') :
                      /\ Enqueued(pickaxe_queue, pickaxe_queue') = {entry}
                      /\ entry.author_id = AuthorId(e)
                      /\ entry.pickaxe_type = PickaxeType(FirstKeyword(e))]_vars

-----------------------------------------------------------------------------
(* Properties of the gift handler, under SpecGift.                         *)

\* the TNT and MegaTNT counts that the coin value and the quantity call for
Classified(coin_value, quantity) ==
    CASE coin_value # None /\ coin_value[1] > 50 -> [tnt |-> 0, mega |-> 10]
      [] coin_value # None /\ coin_value[1] > 1 /\ coin_value[1] <= 50 ->
             [tnt |-> 5, mega |-> 5]
      [] coin_value = Some(1) -> [tnt |-> 10, mega |-> 0]
      [] coin_value = None /\ quantity > 1 -> [tnt |-> 5, mega |-> 5]
      [] OTHER -> [tnt |-> 10, mega |-> 0]

\* the entries a step added to q, as the set of their counts
CountsEnqueued(q, after) == {entry.count : entry \in Enqueued(q, after)}

\* C21: a gift that is not a duplicate enqueues 10 MegaTNT and no TNT above
\* 50 coins, 5 TNT and 5 MegaTNT for more than 1 and at most 50 coins, 10 TNT
\* and no MegaTNT for 1 coin, 5 and 5 for an unknown coin value with a
\* quantity above 1, and 10 TNT otherwise; the two counts sum to 10.
C21_GiftClasses ==
    [][\A e \in GiftTestEvents :
          (HandleGift(e) /\ ~Resident(seen_gift_ids, EventKey(e))) =>
              LET want == Classified(CoinValue(e), Quantity(e))
              IN  /\ want.tnt + want.mega = 10
                  /\ CountsEnqueued(tnt_queue, tnt_queue')
                         = IF want.tnt > 0 THEN {want.tnt} ELSE {}
                  /\ CountsEnqueued(mega_tnt_queue, mega_tnt_queue')
                         = IF want.mega > 0 THEN {want.mega} ELSE {}
                  /\ Len(tnt_queue') + Len(mega_tnt_queue')
                         = Len(tnt_queue) + Len(mega_tnt_queue)
                           + (IF want.tnt > 0 THEN 1 ELSE 0)
                           + (IF want.mega > 0 THEN 1 ELSE 0)]_vars

\* a gift of 50 coins lies behind a gift of 51 coins: 10 MegaTNT for the one,
\* 5 MegaTNT and 5 TNT for the other
C21_Witness ==
    /\ Len(mega_tnt_queue) = 2
    /\ mega_tnt_queue[1].count = 10
    /\ mega_tnt_queue[2].count = 5
    /\ Len(tnt_queue) = 1
    /\ tnt_queue[1].count = 5

-----------------------------------------------------------------------------
(* The priority of the queued requests, under SpecDedup.                   *)

\* the entries that a step added to any queue
EnqueuedAnywhere ==
    Enqueued(tnt_queue, tnt_queue')
    \cup Enqueued(tnt_superchat_queue, tnt_superchat_queue')
    \cup Enqueued(fast_slow_queue, fast_slow_queue')
    \cup Enqueued(big_queue, big_queue')
    \cup Enqueued(pickaxe_queue, pickaxe_queue')
    \cup Enqueued(mega_tnt_queue, mega_tnt_queue')

\* C22: every request that the gift handler enqueues carries the priority
\* "gift", and no request that the comment handler or the like handler
\* enqueues carries it.
C22_GiftPriorityTag ==
    [][/\ \A e \in GiftEvents :
              HandleGift(e) =>
                  \A entry \in EnqueuedAnywhere :
                      Get(entry, "priority") = Some("gift")
       /\ \A e \in CommentEvents :
              HandleComment(e) =>
                  \A entry \in EnqueuedAnywhere :
                      Get(entry, "priority") # Some("gift")
       /\ \A e \in LikeEvents :
              HandleLike(e) =>
                  \A entry \in EnqueuedAnywhere :
                      Get(entry, "priority") # Some("gift")]_vars

\* a gift request with the priority lies in the TNT queue next to a comment
\* request without it, and a like request without it in the MegaTNT queue
C22_Witness ==
    /\ \E i \in 1..Len(tnt_queue) : Get(tnt_queue[i], "priority") = Some("gift")
    /\ \E i \in 1..Len(tnt_queue) : Get(tnt_queue[i], "priority") = None
    /\ \E i \in 1..Len(mega_tnt_queue) :
           /\ mega_tnt_queue[i].message = "Likes x5"
           /\ Get(mega_tnt_queue[i], "priority") = None

-----------------------------------------------------------------------------
(* Properties of the like handler, under SpecLike.                         *)

\* C23: after any sequence of like events every author's pending like count
\* lies in 0..4, below the bundle size of 5.
C23_CounterBelowBundle ==
    \A a \in DOMAIN like_counters : like_counters[a] \in 0..4

\* a like of 11 on a counter of 2 has left 3 pending
C23_Witness ==
    /\ "7" \in DOMAIN like_counters
    /\ liked["7"] = 13
    /\ like_counters["7"] = 3

\* whether an entry is a request that _handle_like made for the author
LikeRequest(entry, a) ==
    /\ entry.author_id = a
    /\ entry.message = "Likes x5"

\* the like requests enqueued for the author so far, queued or dequeued
LikeRequests(a) ==
    Cardinality({i \in 1..Len(mega_tnt_queue) :
                    LikeRequest(mega_tnt_queue[i], a)})
    + Cardinality({p \in popped : p.queue = "mega" /\ LikeRequest(p.entry, a)})

\* C24: for every author the like counts added so far equal 5 times the
\* MegaTNT requests enqueued for the author's likes plus the pending count,
\* and each of these requests has the highlight "megatnt".
C24_LikeConservation ==
    /\ DOMAIN liked = DOMAIN like_counters
    /\ \A a \in DOMAIN liked :
           liked[a] = 5 * LikeRequests(a) + like_counters[a]
    /\ \A i \in 1..Len(mega_tnt_queue) :
           mega_tnt_queue[i].message = "Likes x5"
               => mega_tnt_queue[i].highlight = Some("megatnt")

\* the counts 2, 2, 2 of one author have given one request and left 1
C24_Witness ==
    /\ "7" \in DOMAIN liked
    /\ liked["7"] = 6
    /\ LikeRequests("7") = 1
    /\ like_counters["7"] = 1

-----------------------------------------------------------------------------
(* The classifier example, under SpecExample.                              *)

\* C25: with all queues empty, the comment "please drop tnt and go fast" of
\* the author with id 7 enqueues one TNT request with the highlight "tnt" and
\* one FastSlow request with the choice Fast, both with author id 7, and
\* nothing on the MegaTNT, Big and PickaxeChange queues.
C25_ClassifierExample ==
    [][\A e \in ExampleEvents :
          (/\ Delivered(e) /\ Fresh(e)
           /\ e.comment = Some(ExampleText) /\ AuthorId(e) = "7"
           /\ \A name \in QueueNames : QueueOf(name) = <<>>) =>
              /\ Len(tnt_queue') = 1
              /\ tnt_queue'[1].author_id = "7"
              /\ tnt_queue'[1].highlight = Some("tnt")
              /\ Len(fast_slow_queue') = 1
              /\ fast_slow_queue'[1].author_id = "7"
              /\ fast_slow_queue'[1].choice = "Fast"
              /\ mega_tnt_queue' = <<>>
              /\ big_queue' = <<>>
              /\ pickaxe_queue' = <<>>
              /\ tnt_superchat_queue' = <<>>]_vars

\* the example comment is the only one handled so far
C25_Witness ==
    /\ nextSerial = 3
    /\ Len(tnt_queue) = 1
    /\ tnt_queue[1].message = ExampleText
    /\ tnt_queue[1].highlight = Some("tnt")
    /\ Len(fast_slow_queue) = 1
    /\ fast_slow_queue[1].author_id = "7"
    /\ fast_slow_queue[1].choice = "Fast"

-----------------------------------------------------------------------------
(* The dedup key of an event without identifier, under SpecDedup and       *)
(* SpecKeys.                                                               *)

\* the event carries none of the attributes that _event_key returns as they are
NoIdentifier(e) ==
    e.msg_id = None /\ e.create_time = None /\ e.base_id = None

\* a comment event without user and without text
EmptyComment(e) ==
    NoIdentifier(e) /\ e.user = None /\ OrStr(e.comment, Some(""))[1] = ""

\* C26: a comment event without identifier, author and content has no dedup
\* key, and its delivery is classified, whatever was delivered before it.
C26_EmptyEventPasses ==
    [][\A e \in CommentEvents :
          (EmptyComment(e) /\ HandleComment(e)) =>
              /\ EventKey(e) = None
              /\ last'.outcome # "duplicate"
              /\ Grown(tnt_queue, tnt_queue')]_vars

\* C27: a comment without message identifier is suppressed as a duplicate
\* only of a comment with the same author id and the same content: two
\* events without identifier that differ in author id or in content do not
\* suppress each other.
C27_DistinctEventsPass ==
    [][\A e \in KeyEvents :
          (/\ HandleComment(e)
           /\ e.msg_id = None /\ e.base_id = None
           /\ last'.outcome = "duplicate") =>
              \E i \in 1..Len(tnt_queue) :
                  /\ tnt_queue[i].author_id = AuthorId(e)
                  /\ tnt_queue[i].message = OrStr(e.comment, Some(""))[1]]_vars

-----------------------------------------------------------------------------
(* The start of the bridge, under SpecStartup.                             *)

\* no connect has been issued, no timer is pending and no restart is pending
Disconnected ==
    /\ futures = [cur |-> 0, old |-> 0]
    /\ timers = <<>>
    /\ ~restart_pending
    /\ ~client.connected

\* C28: until start() has set the event loop the bridge is disconnected,
\* whatever restart requests and timer callbacks run, and start() on the
\* disconnected bridge issues the first connect.
C28_StartIssuesFirstConnect ==
    /\ [](~loop => Disconnected)
    /\ [][(~loop /\ Start) => (loop' /\ futures'.cur = 1)]_vars

\* a restart was requested with auto-reconnect on before start()
C28_Witness ==
    /\ ~loop
    /\ auto_reconnect
    /\ last.op \in {"schedule_restart", "do_restart"}

-----------------------------------------------------------------------------
(* Frame conditions, under SpecFrame.                                      *)

\* the queues that the bridge fills
BridgeQueues ==
    <<tnt_queue, fast_slow_queue, big_queue, pickaxe_queue, mega_tnt_queue>>

\* the connection state that the bridge keeps
ConnectionState == <<backoff_attempts, restart_pending, timers, client>>

\* C29: a health report leaves the five queues, the three seen caches, the
\* like counters, the backoff counter, the restart flag and the current
\* client as they were, in every connection state.
C29_HealthObserves ==
    [][LogHealth =>
          UNCHANGED <<BridgeQueues, seen_comment_ids, seen_gift_ids,
                      seen_like_ids, like_counters, ConnectionState>>]_vars

\* a health report has run while a request was queued, a key was cached and
\* a restart was pending after a sign error
C29_Witness ==
    /\ last.op = "health"
    /\ tnt_queue # <<>>
    /\ seen_comment_ids.items # <<>>
    /\ restart_pending
    /\ backoff_attempts = 1

\* a step of one of the three event handlers or of the consumer
HandlerOrConsumerStep ==
    \/ FrameComment \/ FrameGift \/ FrameLike
    \/ FrameConsumer

\* C30: the steps of the comment, gift and like handlers and of the consumer
\* leave the backoff counter, the restart flag, the pending timer and the
\* current client unchanged; these change only in start, connect, the
\* completion of a connect future and the expiry of a timer.
C30_ConnectionStateOwned ==
    /\ [][HandlerOrConsumerStep => UNCHANGED ConnectionState]_vars
    /\ [][ConnectionState' # ConnectionState =>
             last'.op \in {"start", "connect", "done", "timer"}]_vars

\* the consumer has dequeued a request and a like was handled while a restart
\* was pending after a sign error
C30_Witness ==
    /\ popped # {}
    /\ last.op = "like"
    /\ restart_pending
    /\ backoff_attempts = 1
    /\ client.id = 1

-----------------------------------------------------------------------------
(* One entry per author, under SpecChat.                                   *)

\* no two entries of q have the same author id
OnePerAuthor(q) ==
    \A i, j \in 1..Len(q) : q[i].author_id = q[j].author_id => i = j

\* C31: in every reachable state the FastSlow queue, the Big queue and the
\* PickaxeChange queue each hold at most one entry per author id, however
\* comment handling and consumer pops interleave.
C31_OneEntryPerAuthor ==
    /\ OnePerAuthor(fast_slow_queue)
    /\ OnePerAuthor(big_queue)
    /\ OnePerAuthor(pickaxe_queue)

-----------------------------------------------------------------------------
(* A comment without keyword, under SpecExample.                           *)

\* the comments that hold none of the keywords of _handle_comment
PlainTexts == {PlainText}

\* the text of e holds none of the keywords
NoKeyword(e) == e.comment[1] \in PlainTexts

\* C32 as stated: a comment that is not a duplicate and holds none of the
\* keywords leaves the TNT, MegaTNT, FastSlow, Big and PickaxeChange queues
\* unchanged.
C32_NoKeywordNoRequest ==
    [][\A e \in ExampleEvents :
          (Delivered(e) /\ Fresh(e) /\ NoKeyword(e)) =>
              UNCHANGED BridgeQueues]_vars

\* C32: a comment that is not a duplicate and holds none of the keywords
\* appends exactly one request to the TNT queue, with the author id of the
\* comment and without highlight, and leaves the MegaTNT, FastSlow, Big and
\* PickaxeChange queues unchanged.
C32_NoKeywordPlainTnt ==
    [][\A e \in ExampleEvents :
          (Delivered(e) /\ Fresh(e) /\ NoKeyword(e)) =>
              /\ Grown(tnt_queue, tnt_queue')
              /\ tnt_queue'[Len(tnt_queue')].author_id = AuthorId(e)
              /\ tnt_queue'[Len(tnt_queue')].highlight = None
              /\ UNCHANGED <<mega_tnt_queue, fast_slow_queue, big_queue,
                             pickaxe_queue>>]_vars

\* the comment without keyword is queued for TNT, without highlight
C32_Witness ==
    \E i \in 1..Len(tnt_queue) :
        /\ tnt_queue[i].message = PlainText
        /\ tnt_queue[i].highlight = None

-----------------------------------------------------------------------------
(* The caches and the like counters across a client reset, under           *)
(* SpecSessions.                                                           *)

\* the bridge replaces its client in this step
ClientReplaced == client'.id # client.id

\* some event of the first session is replayed, its key resident
Replayed ==
    \E e \in FirstSession :
        /\ Resident(SeenCacheOf(e), EventKey(e))
        /\ \/ HandleComment(e) /\ e.typ = "comment"
           \/ HandleGift(e) /\ e.typ = "gift"
           \/ HandleLike(e) /\ e.typ = "like"

\* C33: the step that replaces the client leaves the three caches and the like
\* counters unchanged; an event of the first session that the next session
\* replays while its key is resident changes no queue and no like counter; and
\* the likes added for an author over both sessions equal 5 times the requests
\* enqueued for them plus the pending count.
C33_ResetKeepsCaches ==
    /\ [][ClientReplaced =>
             UNCHANGED <<seen_comment_ids, seen_gift_ids, seen_like_ids,
                         like_counters>>]_vars
    /\ [][(client.id > 0 /\ Replayed) =>
             UNCHANGED <<queues, like_counters>>]_vars
    /\ [](\A a \in DOMAIN liked :
             /\ a \in DOMAIN like_counters
             /\ liked[a] = 5 * LikeRequests(a) + like_counters[a])

\* the second client delivered the like of 3 after the first had left a
\* pending count of 2: two requests are enqueued and nothing is pending
C33_Witness ==
    /\ client.id = 1
    /\ last = [op |-> "like", outcome |-> "new"]
    /\ "7" \in DOMAIN like_counters
    /\ liked["7"] = 10
    /\ like_counters["7"] = 0
    /\ LikeRequests("7") = 2

-----------------------------------------------------------------------------
(* The connect attempts outstanding, under SpecLifecycle.                  *)

\* C34: in every reachable state at most one connect attempt (a future of
\* client.start) is outstanding, whatever the order of start calls, future
\* completions and timer expiries.
C34_OneConnectOutstanding == futures.cur + futures.old <= 1

-----------------------------------------------------------------------------
(* A bridge without auto-reconnect, under SpecLifecycle.                   *)

\* the connect futures outstanding
Outstanding(f) == f.cur + f.old

\* C35: with auto_reconnect false, the completion of a connect future, with
\* an error or without, replaces the client by a new one that is not
\* connected, sets no timer and leaves restart_pending false; it adds 1 to
\* the backoff counter when the error is a sign error and leaves the counter
\* alone otherwise; and a connect future is issued only by a call of start.
C35_NoRestartWhenDisabled ==
    /\ [](~auto_reconnect => (~restart_pending /\ timers = <<>>))
    /\ [][~auto_reconnect =>
            \A w \in {"cur", "old"}, o \in Outcomes :
                OnFutureDone(w, o) =>
                    /\ client'.id = client.id + 1
                    /\ ~client'.connected
                    /\ timers' = <<>>
                    /\ ~restart_pending'
                    /\ backoff_attempts' =
                           IF o = "SignAPIError" THEN backoff_attempts + 1
                           ELSE backoff_attempts]_vars
    /\ [][(~auto_reconnect /\ Outstanding(futures') > Outstanding(futures))
            => last'.op = "start"]_vars

\* a sign error has ended the connect of a bridge without auto-reconnect:
\* the client is replaced, the counter is 1 and nothing is scheduled
C35_Witness ==
    /\ ~auto_reconnect
    /\ last = [op |-> "done", outcome |-> "SignAPIError"]
    /\ client.id = 1
    /\ backoff_attempts = 1
    /\ timers = <<>>
    /\ ~restart_pending
    /\ Outstanding(futures) = 0

-----------------------------------------------------------------------------
(* What the bridge does to the queues, under SpecSessions.                 *)

\* q is an initial part of r
IsPrefix(q, r) == Len(q) <= Len(r) /\ SubSeq(r, 1, Len(q)) = q

\* a step of an event handler, and a step of the client lifecycle
HandlerStep == SessionComment \/ SessionGift \/ SessionLike
LifecycleStep == Starting \/ Connecting \/ FrameFinishing \/ Restarting

\* C36: a step of the comment, gift or like handler only extends the TNT,
\* MegaTNT, FastSlow, Big and PickaxeChange queues at their tails and leaves
\* the superchat queue unchanged; start, connect, the completion of a connect
\* future with its client reset and restart scheduling, and the expiry of a
\* timer leave all six queues unchanged; and a queue loses an entry only in a
\* step where the consumer pops its head.
C36_BridgeOnlyAppends ==
    /\ [][HandlerStep =>
             /\ \A i \in 1..5 : IsPrefix(BridgeQueues[i], BridgeQueues'[i])
             /\ UNCHANGED tnt_superchat_queue]_vars
    /\ [][LifecycleStep => UNCHANGED queues]_vars
    /\ [][\A i \in 1..6 :
             ~IsPrefix(queues[i], queues'[i]) =>
                 /\ queues[i] # <<>>
                 /\ queues'[i] = Tail(queues[i])
                 /\ \E p \in popped' \ popped : p.entry = Head(queues[i])]_vars

\* the second client has appended a like request behind the first one's
\* while a TNT request was queued and the consumer had dequeued another
C36_Witness ==
    /\ client.id = 1
    /\ last = [op |-> "like", outcome |-> "new"]
    /\ Len(mega_tnt_queue) = 2
    /\ Len(tnt_queue) >= 1
    /\ \E p \in popped : p.queue = "tnt"

-----------------------------------------------------------------------------
(* The pops of the consumer, under Spec.                                   *)

\* the positions of the consumer in the order of one tick
TickOrder ==
    <<"idle", "tnt", "tnt_pop", "mega", "mega_pop", "superchat",
      "superchat_pop", "fast_slow", "fast_slow_pop", "big", "big_pop",
      "pickaxe", "pickaxe_pop">>
TickPos(p) == CHOOSE i \in 1..Len(TickOrder) : TickOrder[i] = p

\* the queue that the consumer is about to pop
AtPop(name) == pc = name \o "_pop"

\* C37: the consumer passes each queue once per tick, in a fixed order, and a
\* step removes at most the head of one queue; whenever the consumer is about
\* to pop a queue, whatever the handlers have appended since the test, that
\* queue is not empty, so no pop is applied to an empty queue.
C37_PopsOnlyNonEmpty ==
    /\ [](pc \in Range(TickOrder))
    /\ [](\A name \in QueueNames : AtPop(name) => QueueOf(name) # <<>>)
    /\ [][pc' # pc => (pc' = "idle" \/ TickPos(pc') > TickPos(pc))]_vars
    /\ [][\A i \in 1..6 :
             Len(queues'[i]) < Len(queues[i]) =>
                 /\ queues'[i] = Tail(queues[i])
                 /\ \A j \in 1..6 : j # i => queues'[j] = queues[j]
                 /\ pc' # pc]_vars

\* the consumer has popped the TNT queue in an earlier tick and is about to pop
\* it again, two requests queued
C37_Witness ==
    /\ AtPop("tnt")
    /\ Len(tnt_queue) = 2
    /\ \E p \in popped : p.queue = "tnt"

-----------------------------------------------------------------------------
(* The chat polls, under SpecFeeds.                                        *)

\* no two of the items have one id
NoRepeat(items) ==
    \A i, j \in 1..Len(items) : items[i].id = items[j].id => i = j

\* the items a poll has added to those returned before
NewlyReturned(before, after) ==
    {after[i] : i \in (Len(before) + 1)..Len(after)}

\* C38: over all polls, get_new_live_chat_messages and get_new_live_comments
\* return no id twice, a poll returns only items whose id no earlier poll has
\* seen, and get_new_live_comments returns no item without an id.
C38_EachIdOnce ==
    /\ [](NoRepeat(returned.youtube) /\ NoRepeat(returned.instagram))
    /\ [](\A i \in 1..Len(returned.instagram) :
             TruthyStr(returned.instagram[i].id))
    /\ [][/\ \A m \in NewlyReturned(returned.youtube, returned.youtube') :
                m.id \notin seen_messages
          /\ \A m \in NewlyReturned(returned.instagram, returned.instagram') :
                m.id[1] \notin seen_comments]_vars

\* both YouTube messages were returned, and the Instagram comment c2 was
\* returned before c1: it came alone or behind an item without id
C38_Witness ==
    /\ Len(returned.youtube) = 2
    /\ seen_messages = {"y1", "y2"}
    /\ Len(returned.instagram) = 2
    /\ returned.instagram[1].id = Some("c2")
    /\ returned.instagram[2].id = Some("c1")

-----------------------------------------------------------------------------
(* The invalidated token, under SpecGraph.                                 *)

\* the answer reports the error code 190
Reports190(o) == o.kind = "HTTPError" /\ o.code = Some(190)

\* the answer ends a fallback loop: it is data, or it invalidates the token
EndsLoop(o) == (o.kind = "json" /\ ~o.json.empty) \/ Reports190(o)

\* the variants a fallback loop tries for these answers, with a valid token:
\* all up to the first whose answer ends the loop, each with a request
VariantsTried(outcomes) ==
    LET ends == {i \in 1..Len(outcomes) : EndsLoop(outcomes[i])}
        k == IF ends = {} THEN Len(outcomes)
             ELSE CHOOSE i \in ends : \A j \in ends : i <= j
    IN  [i \in 1..k |-> [variant |-> i, requested |-> TRUE]]

\* some call into instagram.py
GraphCall ==
    \/ \E token \in Tokens, edges \in EdgeOutcomes, lookup \in Lookups :
           InstagramPollWith(token, edges, lookup)
    \/ \E token \in Tokens, fields \in FieldOutcomes :
           GetLiveMediaWith(token, fields)
    \/ \E token \in Tokens, page \in PageOutcomes :
           GetInstagramUserFromPageWith(token, page)

\* C39: token_invalidated, once true, stays true; a _get whose answer reports
\* the error code 190 sets it; a call made while it is true issues no HTTP
\* request, calls _get for one variant only and returns no data; and while it
\* is false and a token is configured, each fallback loop tries its variants
\* in order, each with a request, up to the first that returns data or that
\* invalidates the token, and returns that data if there is any.
C39_TokenLatch ==
    /\ [][token_invalidated => token_invalidated']_vars
    /\ [][(token_invalidated /\ GraphCall)
                 => /\ call'.requests = 0
                    /\ call'.tried = <<[variant |-> 1, requested |-> FALSE]>>
                    /\ ~Truthy(call'.ret)]_vars
    /\ [][\A token \in Tokens, page \in PageOutcomes :
             (/\ ~token_invalidated
              /\ AccessToken(token) # None
              /\ GetInstagramUserFromPageWith(token, page))
                 => token_invalidated' = Reports190(page)]_vars
    /\ [][\A token \in Tokens, fields \in FieldOutcomes :
             (/\ ~token_invalidated
              /\ AccessToken(token) # None
              /\ GetLiveMediaWith(token, fields))
                 => LET tried == VariantsTried(fields)
                        o == fields[Len(tried)]
                    IN  /\ call'.tried = tried
                        /\ token_invalidated' = Reports190(o)
                        /\ call'.ret = IF EndsLoop(o) /\ ~Reports190(o)
                                       THEN Some(o.json) ELSE None]_vars
    /\ [][\A token \in Tokens, edges \in EdgeOutcomes, lookup \in Lookups :
             (/\ ~token_invalidated
              /\ AccessToken(token) # None
              /\ InstagramPollWith(token, edges, lookup))
                 => call'.tried = VariantsTried(edges)]_vars

\* get_live_media was called with the token invalidated: _get was called for
\* the first field list only and issued no request
C39_Witness ==
    /\ token_invalidated
    /\ call.op = "get_live_media"
    /\ call.tried = <<[variant |-> 1, requested |-> FALSE]>>
    /\ call.requests = 0
    /\ call.ret = None

====
